---- MODULE Spec2Model ----
(***************************************************************************)
(* A model of the evodash01 trading system:                                *)
(*   - SharedState (session_manager.py): the JSON state file and its lock  *)
(*     file, as used by concurrent writers               (SpecShared)      *)
(*   - SessionManager / BudgetCoordinator (session_manager.py): start_bot, *)
(*     stop_bot and the monitor thread's health loop     (SpecSession)     *)
(*   - SlidingWindowRateLimiter gated the way GateIOClient._request gates  *)
(*     it, with several threads                          (SpecLimiter)     *)
(*   - the scalping engine loop, scalp_runner and                          *)
(*     scalp_runner_worker_mode (dash01_refactored.py)   (SpecEngine)      *)
(*   - ApiRetryManager.execute_with_retry with its rate-limit handler and  *)
(*     circuit breaker (api_retry_manager.py)            (SpecRetry)       *)
(*   - CircuitBreaker and OrderFailureTracker as their callers drive them  *)
(*                                                       (SpecBreaker)     *)
(*   - SafeSleepManager (safe_sleep_manager.py) and the sleeps of the      *)
(*     engine loop                                       (SpecSleep)       *)
(*   - MonitoringSystem._emit_event and its throttle                       *)
(*     (advanced_monitoring_system.py)                   (SpecMonitor)     *)
(*   - FailurePatternDetector.record_event                                 *)
(*     (advanced_monitoring_system.py)                   (SpecDetector)    *)
(*   - SafeSleepManager.conditional_sleep                (SpecWait)        *)
(*   - GateIOClient._request and place_spot_order over successive calls    *)
(*     of one client (dash01_refactored.py)              (SpecClient)      *)
(*   - start_bot / stop_bot with the worker processes and the engine       *)
(*     subprocesses they start (session_manager.py)      (SpecWorker)      *)
(*   - two SessionManager processes on one state file    (SpecSupers)      *)
(*   - SharedState callers that may die holding the lock file, with        *)
(*     weak fairness for every live process              (SpecLock)        *)
(*   - MultiBotManager start and stop commands beside the bot's threads    *)
(*     (multi_bot_manager.py)                            (SpecMulti)       *)
(* Money is in whole USDT, prices in whole quote units, time in seconds    *)
(* unless a section says otherwise.                                        *)
(***************************************************************************)
EXTENDS Integers, Sequences, FiniteSets, TLC

VARIABLES
    \* ---- SharedState: the state file, its lock file, the writers
    doc,        \* content of shared_state.json: [bots, budget]
    doc0,       \* the document before the writers ran (history variable)
    lockFile,   \* holder of shared_state.json.lock, or NoHolder
    wpc,        \* writer process -> position inside its SharedState call
    wop,        \* writer process -> the call it makes
    wstate,     \* writer process -> the `state` dict it read
    \* ---- SessionManager
    workers,    \* self.workers: pairs with a registered worker process
    alive,      \* pairs whose worker process is alive
    main,       \* the command thread: start_bot / stop_bot in progress
    mon,        \* the monitor thread: _monitor_loop in progress
    hc,         \* what the last health check found (history variable)
    ncmd,       \* number of start_bot / stop_bot commands issued so far
    \* ---- SlidingWindowRateLimiter of one category and the threads using it
    requests,   \* self.requests: the deque of recorded timestamps
    clock,      \* time.time(), in seconds
    tpc,        \* thread -> position inside GateIOClient._request
    twake,      \* thread -> when its time.sleep ends
    cfg,        \* self.config: the category's RateLimitConfig
    log,        \* every timestamp record_request recorded (history variable)
    \* ---- the scalping engine (scalp_runner / scalp_runner_worker_mode)
    params,     \* which loop runs and its arguments: mode, max_daily_loss,
                \* min_win_rate, timeout_minutes; blocked: the pair is in
                \* state_manager.blocked_pairs when the loop is called
    epc,        \* position of the engine inside one loop iteration
    current_state,          \* waiting_to_buy / position_open / waiting_for_sell
    position,               \* position_entry_price, position_quantity, position_time
    dca,                    \* dca_levels[*]['activated'], dca_weighted_avg_price
    trades_done,
    main_loop_iterations,   \* iterations the loop has started
    locals,     \* currency bound or not, qty of the entry buy, current_price
    safety,     \* SafetySystem: daily_pnl, trade_history
    failure_tracker,        \* self.failure_tracker: the OrderFailureTracker
    \* ---- the exchange and the client's cache, as the engine sees them
    base,       \* base-currency balance on the exchange, available + locked
    orders,     \* open orders of the pair
    wallet_cache,           \* price_cache["wallet_<currency>"], or NoCache
    now,        \* time.time(), in minutes
    sent,       \* the last order request that reached the exchange (history)
    tally,      \* per-trade bookkeeping for the P&L samples (history)
    signal,     \* the stop signal raised so far: scalping_stop_requested or
                \* shutdown_event, or none
    dust_since, \* DCA level -> the balance was gone at some time since the
                \* level was activated (history)
    \* ---- one ApiRetryManager and the execute_with_retry call it runs
    rcfg,       \* self.config: the RetryConfig
    rpc,        \* position of execute_with_retry
    attempt,    \* the loop variable of execute_with_retry
    rtime,      \* time.time(), in tenths of a second
    rate_handler,           \* GateIORateLimitHandler: last_request_time, rate_limit_until
    circuit_breaker,        \* CircuitBreaker: failure_count, last_failure_time, state
    rcall,      \* what the current call did so far (history)
    \* ---- the callers of the two breakers (history)
    tk,         \* what the OrderFailureTracker last answered, and when it opened
    cb,         \* what the CircuitBreaker last answered, and when it opened
    \* ---- one SafeSleepManager and the loop that sleeps
    sleep_manager,          \* SafeSleepManager: limits, total_sleep_time
    scall,      \* the last call of the manager: what it returned (history)
    sleeper,    \* who sleeps: a caller of the manager alone, or the engine
                \* loop with its own time.sleep calls; the time slept in all
    \* ---- MonitoringSystem._emit_event and the threads that call it
    alert_throttle,         \* self.alert_throttle: throttle key -> last time
    mclock,     \* time.time(), in seconds
    mthread,    \* thread -> position inside _emit_event, and its event
    delivered,  \* the events handed to the handlers so far (history)
    \* ---- FailurePatternDetector
    failure_history, \* self.failure_history: the recorded outcomes, oldest first
    patterns,\* what the last record_event returned (history)
    \* ---- SafeSleepManager.conditional_sleep
    cwait,\* one conditional_sleep call: its arguments, locals and result
    \* ---- GateIOClient._request and place_spot_order
    client,\* one GateIOClient: the _request call in progress, the retry manager made for it, and what its calls did so far (history)
    \* ---- history of stop_bot, for the properties only
    stop_hist,\* the last stop_bot call: its pair, the errors_count it found, whether the worker was alive, whether it has returned
    \* ---- the worker processes of the session manager and their engines
    wk, \* _run_bot_worker in the mp.Process of each pair: none, start, loop or wait
    engine, \* the subprocess.Popen child of that worker: none, running or signalled
    orphans, \* per pair, the engine subprocesses still running whose parent process is gone
    queued,\* the pairs whose worker_queue holds a stop command
    \* ---- two SessionManager processes on one shared state file
    sup,\* each supervisor process working on the shared file: its position in start_bot, the pair, the request, the grant, the document it read, its workers
    \* ---- MultiBotManager with one registered bot
    mbot, \* the BotInstance of MultiBotManager: status, the thread whose dashboard is bot.dashboard, bot.thread
    bthreads, \* every bot_worker thread started for the bot: its position and the scalping_stop_requested of its dashboard
    mcmd \* the command in progress on the thread that holds data_lock

sharedVars  == <<doc0, lockFile, wpc, wop, wstate>>
sessionVars == <<workers, alive, main, mon, hc, ncmd>>
limiterVars == <<requests, clock, tpc, twake, cfg, log>>
engineVars == <<params, signal, dust_since, epc, current_state, position, dca, trades_done,
                main_loop_iterations, locals, safety, failure_tracker,
                base, orders, wallet_cache, now, sent, tally>>
retryVars == <<rcfg, rpc, attempt, rtime, rate_handler, circuit_breaker, rcall>>
callerVars == <<tk, cb>>
sleepVars == <<sleep_manager, scall, sleeper>>
monitorVars == <<alert_throttle, mclock, mthread, delivered>>
detectorVars == <<failure_history, patterns>>
waitVars == <<cwait>>
clientVars == <<client>>
stopsVars == <<stop_hist>>
workerVars == <<wk, engine, orphans, queued>>
supersVars == <<sup>>
multiVars == <<mbot, bthreads, mcmd>>
vars == <<doc, sharedVars, sessionVars, limiterVars, engineVars, retryVars, callerVars,
          sleepVars, monitorVars, detectorVars, waitVars, clientVars, stopsVars, workerVars, supersVars, multiVars>>
\* what the steps of one component leave alone
notShared  == <<sessionVars, limiterVars, engineVars, retryVars, callerVars,
               sleepVars, monitorVars, detectorVars, waitVars, clientVars, stopsVars, workerVars, supersVars, multiVars>>
notSession == <<sharedVars, limiterVars, engineVars, retryVars, callerVars,
               sleepVars, monitorVars, detectorVars, waitVars, clientVars, stopsVars, workerVars, supersVars, multiVars>>
notSessionStops == <<sharedVars, limiterVars, engineVars, retryVars, callerVars,
                    sleepVars, monitorVars, detectorVars, waitVars, clientVars, workerVars, supersVars, multiVars>>
notSessionWorker == <<sharedVars, limiterVars, engineVars, retryVars, callerVars,
                     sleepVars, monitorVars, detectorVars, waitVars, clientVars, stopsVars, supersVars, multiVars>>
notSessionBoth == <<sharedVars, limiterVars, engineVars, retryVars, callerVars,
                   sleepVars, monitorVars, detectorVars, waitVars, clientVars, supersVars, multiVars>>
notLimiter == <<doc, sharedVars, sessionVars, engineVars, retryVars, callerVars,
               sleepVars, monitorVars, detectorVars, waitVars, clientVars, stopsVars, workerVars, supersVars, multiVars>>
notEngine  == <<doc, sharedVars, sessionVars, limiterVars, retryVars, callerVars,
               sleepVars, monitorVars, detectorVars, waitVars, clientVars, stopsVars, workerVars, supersVars, multiVars>>
notRetry   == <<doc, sharedVars, sessionVars, limiterVars, engineVars, callerVars,
               sleepVars, monitorVars, detectorVars, waitVars, clientVars, stopsVars, workerVars, supersVars, multiVars>>
\* what a step of a breaker or of its caller leaves alone: all but the two
\* breakers, the two clocks and the callers' records
notBreaker == <<doc, sharedVars, sessionVars, limiterVars,
                params, signal, dust_since, epc, current_state, position,
                dca, trades_done, main_loop_iterations, locals, safety, base, orders,
                wallet_cache, sent, tally,
                rcfg, rpc, attempt, rate_handler, rcall,
                sleepVars, monitorVars, detectorVars, waitVars, clientVars, stopsVars, workerVars, supersVars, multiVars>>
notSleep   == <<doc, sharedVars, sessionVars, limiterVars, engineVars, retryVars,
                callerVars, monitorVars, detectorVars, waitVars, clientVars, stopsVars, workerVars, supersVars, multiVars>>
notMonitor == <<doc, sharedVars, sessionVars, limiterVars, engineVars, retryVars,
                callerVars, sleepVars, detectorVars, waitVars, clientVars, stopsVars, workerVars, supersVars, multiVars>>
notDetector == <<doc, sharedVars, sessionVars, limiterVars, engineVars, retryVars,
                 callerVars, sleepVars, monitorVars, waitVars, clientVars, stopsVars, workerVars, supersVars, multiVars>>
notWait == <<doc, sharedVars, sessionVars, limiterVars, engineVars, retryVars,
      callerVars, sleepVars, monitorVars, detectorVars, clientVars, stopsVars, workerVars, supersVars, multiVars>>

\* what a step of conditional_sleep leaves alone: all but the manager's total
\* and the call itself
notWaitStep == <<doc, sharedVars, sessionVars, limiterVars, engineVars, retryVars,
                 callerVars, scall, sleeper, monitorVars, detectorVars, clientVars, stopsVars, workerVars, supersVars, multiVars>>
notClient == <<doc, sharedVars, sessionVars, limiterVars, engineVars, retryVars,
      callerVars, sleepVars, monitorVars, detectorVars, waitVars, stopsVars, workerVars, supersVars, multiVars>>
notStops == <<doc, sharedVars, sessionVars, limiterVars, engineVars, retryVars,
      callerVars, sleepVars, monitorVars, detectorVars, waitVars,
      clientVars, workerVars, supersVars, multiVars>>
notWorker == <<doc, sharedVars, sessionVars, limiterVars, engineVars, retryVars,
      callerVars, sleepVars, monitorVars, detectorVars, waitVars,
      clientVars, stopsVars, supersVars, multiVars>>
notSupers == <<sharedVars, sessionVars, limiterVars, engineVars, retryVars,
      callerVars, sleepVars, monitorVars, detectorVars, waitVars,
      clientVars, stopsVars, workerVars, multiVars>>
notMulti == <<doc, sharedVars, sessionVars, limiterVars, engineVars, retryVars,
      callerVars, sleepVars, monitorVars, detectorVars, waitVars,
      clientVars, stopsVars, workerVars, supersVars>>

(***************************************************************************)
(* Bounds of the model and the inputs it enumerates.                       *)
(***************************************************************************)
Pairs == {"BTC_USDT", "ETH_USDT"}
Writers == {1, 2}
NoHolder == 0
NoBot == [status |-> "NONE", alloc |-> 0, errors |-> 0]
NoPair == "NONE"

\* BotStatus.status values the session manager writes
Active == {"STARTING", "RUNNING"}

\* Totals get_total_usdt_balance can return
Totals == {100}
\* Budgets a caller of start_bot asks for
Requests == {60}
\* allocate_budget: the minimum free budget for a partial grant
MinTradable == 10
\* Commands (start_bot, stop_bot) the operator issues in one run
MaxCommands == 3
\* Threads of one process that issue requests through one GateIOClient
Threads == {1, 2}
\* Requests recorded and seconds elapsed in one run
MaxRecorded == 10
MaxClock == 4
\* RateLimitConfig.burst_allowance = 0.8, in percent
BurstPercent == 80
\* Engine runs: loop iterations explored, the max_trades argument, order
\* requests sent, and minutes elapsed since the engine started
MaxLoopIterations == 5
MaxTrades == 2
MaxSent == 3
MaxElapsed == 2
\* Minutes the breakers are watched for
MaxBreakerMinutes == 12

Max(a, b) == IF a >= b THEN a ELSE b

(***************************************************************************)
(* SharedState: the document and the two mutators.                         *)
(***************************************************************************)
EmptyBudget == [total |-> 0, allocated |-> 0, available |-> 0]

\* SharedState.__init__: the document written when the file does not exist
InitialDoc == [bots |-> [p \in Pairs |-> NoBot], budget |-> EmptyBudget]

\* set_bot_status, the modification between its read and its write
set_bot_status(state, pair, bot) == [state EXCEPT !.bots[pair] = bot]

\* set_budget_info, the modification between its read and its write
set_budget_info(state, info) == [state EXCEPT !.budget = info]

\* get_bot_status on a document
get_bot_status(state, pair) == state.bots[pair]

\* The calls a writer process can make
BotValues == { [status |-> "RUNNING", alloc |-> 60, errors |-> 0],
               [status |-> "STOPPED", alloc |-> 0,  errors |-> 0] }
BudgetValues == { [total |-> 100, allocated |-> 60, available |-> 40],
                  [total |-> 100, allocated |-> 0,  available |-> 100] }
WriterOps == [kind : {"bot"}, pair : Pairs, bot : BotValues, info : {EmptyBudget}]
             \cup [kind : {"budget"}, pair : {NoPair}, bot : {NoBot}, info : BudgetValues]

\* one whole call (read, modify, write) applied to a document
ApplyOp(op, state) ==
    IF op.kind = "bot" THEN set_bot_status(state, op.pair, op.bot)
                       ELSE set_budget_info(state, op.info)

\* _acquire_file_lock succeeding: open(lock_file, 'x') creates the lock file
acquire_file_lock(w) ==
    /\ lockFile = NoHolder
    /\ lockFile' = w

\* _release_file_lock: unlink the lock file
release_file_lock == lockFile' = NoHolder

\* _read_state, first half: take the lock
ReadAcquire(w) ==
    /\ wpc[w] = "start"
    /\ acquire_file_lock(w)
    /\ wpc' = [wpc EXCEPT ![w] = "reading"]
    /\ UNCHANGED <<doc, doc0, wop, wstate, notShared>>

\* _read_state, second half: json.load, and the finally that releases the lock
ReadRelease(w) ==
    /\ wpc[w] = "reading"
    /\ wstate' = [wstate EXCEPT ![w] = doc]
    /\ release_file_lock
    /\ wpc' = [wpc EXCEPT ![w] = "modified"]
    /\ UNCHANGED <<doc, doc0, wop, notShared>>

\* _write_state, first half: take the lock again
WriteAcquire(w) ==
    /\ wpc[w] = "modified"
    /\ acquire_file_lock(w)
    /\ wpc' = [wpc EXCEPT ![w] = "writing"]
    /\ UNCHANGED <<doc, doc0, wop, wstate, notShared>>

\* _write_state, second half: json.dump of the modified dict, release
WriteRelease(w) ==
    /\ wpc[w] = "writing"
    /\ doc' = ApplyOp(wop[w], wstate[w])
    /\ release_file_lock
    /\ wpc' = [wpc EXCEPT ![w] = "done"]
    /\ UNCHANGED <<doc0, wop, wstate, notShared>>

\* _acquire_file_lock returning False after `timeout` seconds of polling a
\* lock file somebody else holds: the caller raises TimeoutError
LockTimeout(w) ==
    /\ wpc[w] \in {"start", "modified"}
    /\ lockFile \notin {NoHolder, w}
    /\ wpc' = [wpc EXCEPT ![w] = "failed"]
    /\ UNCHANGED <<doc, doc0, lockFile, wop, wstate, notShared>>

\* a process ends (SIGKILL, SIGTERM without handler, crash of the interpreter)
\* between open(lock_file, 'x') and the finally that unlinks it: the lock file
\* stays, with the pid of a process that is gone
HolderDies(w) ==
    /\ wpc[w] \in {"reading", "writing"}
    /\ wpc' = [wpc EXCEPT ![w] = "dead"]
    /\ UNCHANGED <<doc, doc0, lockFile, wop, wstate, notShared>>

\* a process whose call has returned or raised TimeoutError calls again
NextCall(w) ==
    /\ wpc[w] \in {"done", "failed"}
    /\ wpc' = [wpc EXCEPT ![w] = "start"]
    /\ UNCHANGED <<doc, doc0, lockFile, wop, wstate, notShared>>

\* every step of one process
WriterStep(w) ==
    \/ ReadAcquire(w)
    \/ ReadRelease(w)
    \/ WriteAcquire(w)
    \/ WriteRelease(w)
    \/ LockTimeout(w)
    \/ NextCall(w)

MainIdle == [pc |-> "idle", pair |-> NoPair, req |-> 0, grant |-> 0,
             info |-> EmptyBudget, st |-> InitialDoc, bs |-> NoBot]
MonIdle == [pc |-> "idle", todo |-> <<>>, info |-> EmptyBudget,
            st |-> InitialDoc, bs |-> NoBot]
NoCheck == [pair |-> NoPair, before |-> InitialDoc, done |-> FALSE]

SessionIdle ==
    /\ workers = {}
    /\ alive = {}
    /\ main = MainIdle
    /\ mon = MonIdle
    /\ hc = NoCheck
    /\ ncmd = 0

(***************************************************************************)
(* BudgetCoordinator and SessionManager.  Every SharedState read           *)
(* (_read_state) and write (_write_state) is one step: each runs under the *)
(* lock file; a set_* call is a read step followed by a write step.        *)
(***************************************************************************)
RECURSIVE SumAlloc(_, _)
\* update_budget_info: sum(bot.allocated_budget for bots RUNNING or STARTING)
SumAlloc(bots, ps) ==
    IF ps = {} THEN 0
    ELSE LET p == CHOOSE q \in ps : TRUE
         IN  (IF bots[p].status \in Active THEN bots[p].alloc ELSE 0)
             + SumAlloc(bots, ps \ {p})

\* update_budget_info: the budget_info computed from the balance and get_all_bots
budget_info(total, bots) ==
    LET allocated == SumAlloc(bots, Pairs)
    IN  [total |-> total, allocated |-> allocated,
         available |-> Max(0, total - allocated)]

\* allocate_budget: (success, allocated_amount) from the request and what is free
allocate_budget(requested, available) ==
    IF requested <= available THEN [ok |-> TRUE, amount |-> requested]
    ELSE IF available > MinTradable
         THEN [ok |-> TRUE, amount |-> (available * 9) \div 10]
         ELSE [ok |-> FALSE, amount |-> 0]

\* ---- what the properties remember of the last stop_bot call
NoStop == [pair |-> NoPair, errors |-> 0, was_alive |-> FALSE, returned |-> FALSE]
StopsIdle == stop_hist = NoStop

\* ---- start_bot(pair, budget) on the command thread
\* the pair-not-in-workers check, then allocate_budget -> update_budget_info:
\* get_total_usdt_balance and get_all_bots
StartBot_Update(pair, req, total) ==
    /\ main.pc = "idle"
    /\ pair \notin workers
    /\ ncmd < MaxCommands
    /\ ncmd' = ncmd + 1
    /\ main' = [main EXCEPT !.pc = "sb_budget_r", !.pair = pair, !.req = req,
                            !.info = budget_info(total, doc.bots)]
    /\ stop_hist' = IF stop_hist.pair = pair THEN NoStop ELSE stop_hist
    /\ UNCHANGED <<doc, workers, alive, mon, hc, notSessionStops>>

\* set_budget_info: _read_state
StartBot_BudgetRead ==
    /\ main.pc = "sb_budget_r"
    /\ main' = [main EXCEPT !.pc = "sb_budget_w", !.st = doc]
    /\ UNCHANGED <<doc, workers, alive, mon, hc, ncmd, notSession>>

\* set_budget_info: _write_state; then allocate_budget decides the grant and
\* start_bot returns False when it is refused
StartBot_BudgetWrite ==
    /\ main.pc = "sb_budget_w"
    /\ doc' = set_budget_info(main.st, main.info)
    /\ LET g == allocate_budget(main.req, main.info.available)
       IN  main' = IF g.ok
                   THEN [main EXCEPT !.pc = "sb_starting_r", !.grant = g.amount,
                                     !.info = EmptyBudget, !.st = InitialDoc]
                   ELSE MainIdle
    /\ UNCHANGED <<workers, alive, mon, hc, ncmd, notSession>>

\* set_bot_status(STARTING): _read_state
StartBot_StartingRead ==
    /\ main.pc = "sb_starting_r"
    /\ main' = [main EXCEPT !.pc = "sb_starting_w", !.st = doc]
    /\ UNCHANGED <<doc, workers, alive, mon, hc, ncmd, notSession>>

\* set_bot_status(STARTING): _write_state of the new BotStatus
StartBot_StartingWrite ==
    /\ main.pc = "sb_starting_w"
    /\ doc' = set_bot_status(main.st, main.pair,
                  [status |-> "STARTING", alloc |-> main.grant, errors |-> 0])
    /\ main' = [main EXCEPT !.pc = "sb_spawn", !.st = InitialDoc]
    /\ UNCHANGED <<workers, alive, mon, hc, ncmd, notSession>>

\* worker_queue = Queue(); process.start(); self.workers[pair] = process
StartBot_Spawn ==
    /\ main.pc = "sb_spawn"
    /\ workers' = workers \cup {main.pair}
    /\ alive' = alive \cup {main.pair}
    /\ main' = [main EXCEPT !.pc = "sb_running_r"]
    /\ queued' = queued \ {main.pair}
    /\ wk' = [wk EXCEPT ![main.pair] = "start"]
    /\ UNCHANGED <<doc, mon, hc, ncmd, engine, orphans, notSessionWorker>>

\* set_bot_status(RUNNING): _read_state
StartBot_RunningRead ==
    /\ main.pc = "sb_running_r"
    /\ main' = [main EXCEPT !.pc = "sb_running_w", !.st = doc]
    /\ UNCHANGED <<doc, workers, alive, mon, hc, ncmd, notSession>>

\* set_bot_status(RUNNING): _write_state; start_bot returns True
StartBot_RunningWrite ==
    /\ main.pc = "sb_running_w"
    /\ doc' = set_bot_status(main.st, main.pair,
                  [status |-> "RUNNING", alloc |-> main.grant, errors |-> 0])
    /\ main' = MainIdle
    /\ UNCHANGED <<workers, alive, mon, hc, ncmd, notSession>>

\* ---- stop_bot(pair) on the command thread
\* what becomes of a worker process that ends without having waited for its
\* engine: the subprocess.Popen child keeps running without a parent
orphaned(pair) ==
    IF engine[pair] = "none" THEN orphans
    ELSE [orphans EXCEPT ![pair] = @ + 1]

\* the pair-in-workers check, worker_queues[pair].put_nowait({'action': 'stop'})
StopBot_Put(pair) ==
    /\ main.pc = "idle"
    /\ pair \in workers
    /\ ncmd < MaxCommands
    /\ ncmd' = ncmd + 1
    /\ queued' = queued \cup {pair}
    /\ main' = [main EXCEPT !.pc = "st_terminate", !.pair = pair]
    /\ stop_hist' = [pair |-> pair, errors |-> get_bot_status(doc, pair).errors,
                     was_alive |-> FALSE, returned |-> FALSE]
    /\ UNCHANGED <<doc, workers, alive, mon, hc, wk, engine, orphans, notSessionBoth>>

\* process.terminate(), join, kill: the worker process has installed no
\* handler, SIGTERM ends it where it stands
StopBot_Terminate ==
    /\ main.pc = "st_terminate"
    /\ alive' = alive \ {main.pair}
    /\ wk' = [wk EXCEPT ![main.pair] = "none"]
    /\ orphans' = orphaned(main.pair)
    /\ engine' = [engine EXCEPT ![main.pair] = "none"]
    /\ main' = [main EXCEPT !.pc = "st_dealloc_get"]
    /\ stop_hist' = [stop_hist EXCEPT !.was_alive = main.pair \in alive]
    /\ UNCHANGED <<doc, workers, mon, hc, ncmd, queued, notSessionBoth>>

\* deallocate_budget: get_bot_status
StopBot_DeallocGet ==
    /\ main.pc = "st_dealloc_get"
    /\ LET bs == get_bot_status(doc, main.pair)
       IN  main' = [main EXCEPT !.bs = bs,
                       !.pc = IF bs = NoBot THEN "st_update" ELSE "st_dealloc_r"]
    /\ UNCHANGED <<doc, workers, alive, mon, hc, ncmd, notSession>>

\* deallocate_budget: set_bot_status, _read_state
StopBot_DeallocRead ==
    /\ main.pc = "st_dealloc_r"
    /\ main' = [main EXCEPT !.pc = "st_dealloc_w", !.st = doc]
    /\ UNCHANGED <<doc, workers, alive, mon, hc, ncmd, notSession>>

\* deallocate_budget: set_bot_status, _write_state with allocated_budget = 0
StopBot_DeallocWrite ==
    /\ main.pc = "st_dealloc_w"
    /\ doc' = set_bot_status(main.st, main.pair, [main.bs EXCEPT !.alloc = 0])
    /\ main' = [main EXCEPT !.pc = "st_update", !.st = InitialDoc, !.bs = NoBot]
    /\ UNCHANGED <<workers, alive, mon, hc, ncmd, notSession>>

\* deallocate_budget: update_budget_info, the balance and get_all_bots
StopBot_Update(total) ==
    /\ main.pc = "st_update"
    /\ main' = [main EXCEPT !.pc = "st_budget_r",
                            !.info = budget_info(total, doc.bots)]
    /\ UNCHANGED <<doc, workers, alive, mon, hc, ncmd, notSession>>

\* set_budget_info: _read_state
StopBot_BudgetRead ==
    /\ main.pc = "st_budget_r"
    /\ main' = [main EXCEPT !.pc = "st_budget_w", !.st = doc]
    /\ UNCHANGED <<doc, workers, alive, mon, hc, ncmd, notSession>>

\* set_budget_info: _write_state
StopBot_BudgetWrite ==
    /\ main.pc = "st_budget_w"
    /\ doc' = set_budget_info(main.st, main.info)
    /\ main' = [main EXCEPT !.pc = "st_stopped_get", !.st = InitialDoc,
                            !.info = EmptyBudget]
    /\ UNCHANGED <<workers, alive, mon, hc, ncmd, notSession>>

\* stop_bot: get_bot_status before marking STOPPED
StopBot_StoppedGet ==
    /\ main.pc = "st_stopped_get"
    /\ LET bs == get_bot_status(doc, main.pair)
       IN  main' = [main EXCEPT !.bs = bs,
                       !.pc = IF bs = NoBot THEN "st_cleanup" ELSE "st_stopped_r"]
    /\ UNCHANGED <<doc, workers, alive, mon, hc, ncmd, notSession>>

\* set_bot_status(STOPPED): _read_state
StopBot_StoppedRead ==
    /\ main.pc = "st_stopped_r"
    /\ main' = [main EXCEPT !.pc = "st_stopped_w", !.st = doc]
    /\ UNCHANGED <<doc, workers, alive, mon, hc, ncmd, notSession>>

\* set_bot_status(STOPPED): _write_state
StopBot_StoppedWrite ==
    /\ main.pc = "st_stopped_w"
    /\ doc' = set_bot_status(main.st, main.pair, [main.bs EXCEPT !.status = "STOPPED"])
    /\ main' = [main EXCEPT !.pc = "st_cleanup", !.st = InitialDoc, !.bs = NoBot]
    /\ UNCHANGED <<workers, alive, mon, hc, ncmd, notSession>>

\* _cleanup_worker; stop_bot returns True
StopBot_Cleanup ==
    /\ main.pc = "st_cleanup"
    /\ workers' = workers \ {main.pair}
    /\ main' = MainIdle
    /\ stop_hist' = [stop_hist EXCEPT !.returned = TRUE]
    /\ UNCHANGED <<doc, alive, mon, hc, ncmd, notSessionStops>>

\* ---- _run_bot_worker(pair, ...) in the mp.Process of a pair, and the engine
\* subprocess (dash01_refactored.py --worker-mode) it starts
WorkerIdle ==
    /\ wk = [p \in Pairs |-> "none"]
    /\ engine = [p \in Pairs |-> "none"]
    /\ orphans = [p \in Pairs |-> 0]
    /\ queued = {}

\* process = subprocess.Popen(cmd, ...)
Worker_Popen(pair) ==
    /\ wk[pair] = "start"
    /\ wk' = [wk EXCEPT ![pair] = "loop"]
    /\ engine' = [engine EXCEPT ![pair] = "running"]
    /\ UNCHANGED <<doc, sessionVars, orphans, queued, notSessionWorker>>

\* while process.poll() is None: command_queue.get_nowait() returns the stop
\* command; process.terminate(); break
Worker_StopCommand(pair) ==
    /\ wk[pair] = "loop"
    /\ engine[pair] # "none"
    /\ pair \in queued
    /\ queued' = queued \ {pair}
    /\ engine' = [engine EXCEPT ![pair] = "signalled"]
    /\ wk' = [wk EXCEPT ![pair] = "wait"]
    /\ UNCHANGED <<doc, sessionVars, orphans, notSessionWorker>>

\* while process.poll() is None: the engine has ended, the loop is left
Worker_LoopEnds(pair) ==
    /\ wk[pair] = "loop"
    /\ engine[pair] = "none"
    /\ wk' = [wk EXCEPT ![pair] = "wait"]
    /\ UNCHANGED <<doc, sessionVars, engine, orphans, queued, notSessionWorker>>

\* process.communicate(timeout=5), process.kill() on TimeoutExpired; the
\* worker function returns and its process ends
Worker_Communicate(pair) ==
    /\ wk[pair] = "wait"
    /\ engine' = [engine EXCEPT ![pair] = "none"]
    /\ wk' = [wk EXCEPT ![pair] = "none"]
    /\ alive' = alive \ {pair}
    /\ UNCHANGED <<doc, workers, main, mon, hc, ncmd, orphans, queued, notSessionWorker>>

\* the engine ends by itself: its loop ends, sys.exit, or shutdown_event after
\* the SIGTERM of its parent
Engine_Exits(pair) ==
    /\ engine[pair] # "none"
    /\ engine' = [engine EXCEPT ![pair] = "none"]
    /\ UNCHANGED <<doc, sessionVars, wk, orphans, queued, notSessionWorker>>

\* the same for an engine whose parent is gone
Orphan_Exits(pair) ==
    /\ orphans[pair] > 0
    /\ orphans' = [orphans EXCEPT ![pair] = @ - 1]
    /\ UNCHANGED <<doc, sessionVars, wk, engine, queued, notSessionWorker>>

\* ---- start_bot in each of two SessionManager processes that share one state
\* file: every process has its own workers map and its own command thread
Supervisors == {1, 2}
\* start_bot calls one supervisor makes in a run
MaxStarts == 2

SupIdle == [pc |-> "idle", pair |-> NoPair, req |-> 0, grant |-> 0,
            info |-> EmptyBudget, st |-> InitialDoc, workers |-> {}, started |-> 0]
SupersIdle == sup = [s \in Supervisors |-> SupIdle]

\* the pair-not-in-workers check of this process, then allocate_budget ->
\* update_budget_info: get_total_usdt_balance and get_all_bots
Sup_Update(s, pair, req, total) ==
    /\ sup[s].pc = "idle"
    /\ pair \notin sup[s].workers
    /\ sup[s].started < MaxStarts
    /\ sup' = [sup EXCEPT ![s].pc = "sb_budget_r", ![s].pair = pair, ![s].req = req,
                          ![s].started = @ + 1,
                          ![s].info = budget_info(total, doc.bots)]
    /\ UNCHANGED <<doc, notSupers>>

\* set_budget_info: _read_state
Sup_BudgetRead(s) ==
    /\ sup[s].pc = "sb_budget_r"
    /\ sup' = [sup EXCEPT ![s].pc = "sb_budget_w", ![s].st = doc]
    /\ UNCHANGED <<doc, notSupers>>

\* set_budget_info: _write_state; allocate_budget decides the grant and
\* start_bot returns False when it is refused
Sup_BudgetWrite(s) ==
    /\ sup[s].pc = "sb_budget_w"
    /\ doc' = set_budget_info(sup[s].st, sup[s].info)
    /\ LET g == allocate_budget(sup[s].req, sup[s].info.available)
       IN  sup' = IF g.ok
                  THEN [sup EXCEPT ![s].pc = "sb_starting_r", ![s].grant = g.amount,
                                   ![s].info = EmptyBudget, ![s].st = InitialDoc]
                  ELSE [sup EXCEPT ![s].pc = "idle", ![s].pair = NoPair, ![s].req = 0,
                                   ![s].info = EmptyBudget, ![s].st = InitialDoc]
    /\ UNCHANGED notSupers

\* set_bot_status(STARTING): _read_state
Sup_StartingRead(s) ==
    /\ sup[s].pc = "sb_starting_r"
    /\ sup' = [sup EXCEPT ![s].pc = "sb_starting_w", ![s].st = doc]
    /\ UNCHANGED <<doc, notSupers>>

\* set_bot_status(STARTING): _write_state of the new BotStatus; then
\* process.start() and self.workers[pair] = process
Sup_StartingWrite(s) ==
    /\ sup[s].pc = "sb_starting_w"
    /\ doc' = set_bot_status(sup[s].st, sup[s].pair,
                  [status |-> "STARTING", alloc |-> sup[s].grant, errors |-> 0])
    /\ sup' = [sup EXCEPT ![s].pc = "sb_running_r", ![s].st = InitialDoc,
                          ![s].workers = @ \cup {sup[s].pair}]
    /\ UNCHANGED notSupers

\* set_bot_status(RUNNING): _read_state
Sup_RunningRead(s) ==
    /\ sup[s].pc = "sb_running_r"
    /\ sup' = [sup EXCEPT ![s].pc = "sb_running_w", ![s].st = doc]
    /\ UNCHANGED <<doc, notSupers>>

\* set_bot_status(RUNNING): _write_state; start_bot returns True
Sup_RunningWrite(s) ==
    /\ sup[s].pc = "sb_running_w"
    /\ doc' = set_bot_status(sup[s].st, sup[s].pair,
                  [status |-> "RUNNING", alloc |-> sup[s].grant, errors |-> 0])
    /\ sup' = [sup EXCEPT ![s].pc = "idle", ![s].pair = NoPair, ![s].req = 0,
                          ![s].grant = 0, ![s].st = InitialDoc]
    /\ UNCHANGED notSupers

\* ---- MultiBotManager: one registered bot, commands executed one at a time
\* under data_lock, the bot_worker threads running beside them
\* bot_worker threads started in one run
MaxBotThreads == 3
BotThreads == 1..MaxBotThreads
NoThread == 0
NotStarted == [pc |-> "none", scalping_stop_requested |-> FALSE]

\* register_bot: BotInstance(status=IDLE), no dashboard, no thread
MultiIdle ==
    /\ mbot = [status |-> "IDLE", dashboard |-> NoThread, thread |-> NoThread]
    /\ bthreads = [t \in BotThreads |-> NotStarted]
    /\ mcmd = "idle"

\* _start_bot_instance: the startable-state check, status STARTING,
\* threading.Thread(target=bot_worker).start()
StartBotInstance(t) ==
    /\ mcmd = "idle"
    /\ mbot.status \in {"IDLE", "STOPPED"}
    /\ bthreads[t] = NotStarted
    /\ \A u \in BotThreads : u < t => bthreads[u] # NotStarted
    /\ mbot' = [mbot EXCEPT !.status = "STARTING", !.thread = t]
    /\ bthreads' = [bthreads EXCEPT ![t].pc = "started"]
    /\ UNCHANGED <<mcmd, notMulti>>

\* bot_worker: bot.status = RUNNING
BotWorker_Running(t) ==
    /\ bthreads[t].pc = "started"
    /\ mbot' = [mbot EXCEPT !.status = "RUNNING"]
    /\ bthreads' = [bthreads EXCEPT ![t].pc = "running"]
    /\ UNCHANGED <<mcmd, notMulti>>

\* bot_worker: the dashboard is created, bot.dashboard = dashboard,
\* scalping_stop_requested = False, scalp_runner_worker_mode is entered
BotWorker_Dashboard(t) ==
    /\ bthreads[t].pc = "running"
    /\ mbot' = [mbot EXCEPT !.dashboard = t]
    /\ bthreads' = [bthreads EXCEPT ![t] = [pc |-> "engine",
                                            scalping_stop_requested |-> FALSE]]
    /\ UNCHANGED <<mcmd, notMulti>>

\* bot_worker: an exception before the engine runs (import, GateIOClient):
\* status ERROR, then the finally block
BotWorker_Fails(t) ==
    /\ bthreads[t].pc = "running"
    /\ mbot' = [mbot EXCEPT !.status = "ERROR"]
    /\ bthreads' = [bthreads EXCEPT ![t].pc = "finally"]
    /\ UNCHANGED <<mcmd, notMulti>>

\* scalp_runner_worker_mode returns: its loop saw scalping_stop_requested, or
\* it ended by itself
BotWorker_EngineEnds(t) ==
    /\ bthreads[t].pc = "engine"
    /\ bthreads' = [bthreads EXCEPT ![t].pc = "finally"]
    /\ UNCHANGED <<mbot, mcmd, notMulti>>

\* bot_worker, finally: bot.dashboard.scalping_stop_requested = True, status
\* STOPPED unless it is ERROR; the thread ends
BotWorker_Finally(t) ==
    /\ bthreads[t].pc = "finally"
    /\ mbot' = IF mbot.status # "ERROR" THEN [mbot EXCEPT !.status = "STOPPED"] ELSE mbot
    /\ bthreads' = [u \in BotThreads |->
                       IF u = t
                       THEN [pc |-> "dead",
                             scalping_stop_requested |->
                                 bthreads[u].scalping_stop_requested \/ mbot.dashboard = u]
                       ELSE IF u = mbot.dashboard
                            THEN [bthreads[u] EXCEPT !.scalping_stop_requested = TRUE]
                            ELSE bthreads[u]]
    /\ UNCHANGED <<mcmd, notMulti>>

\* _stop_bot_instance: the stoppable-state check, status STOPPING,
\* bot.dashboard.scalping_stop_requested = True when there is a dashboard
StopBotInstance_Signal ==
    /\ mcmd = "idle"
    /\ mbot.status \in {"RUNNING", "STARTING"}
    /\ mbot' = [mbot EXCEPT !.status = "STOPPING"]
    /\ bthreads' = [u \in BotThreads |->
                       IF u = mbot.dashboard
                       THEN [bthreads[u] EXCEPT !.scalping_stop_requested = TRUE]
                       ELSE bthreads[u]]
    /\ mcmd' = "join"
    /\ UNCHANGED notMulti

\* _stop_bot_instance: bot.thread.join(timeout=10) has returned, because the
\* thread ended or because 10 s passed with the thread still in the engine;
\* status STOPPED either way
StopBotInstance_Joined ==
    /\ mcmd = "join"
    /\ bthreads[mbot.thread].pc \in {"dead", "engine"}
    /\ mbot' = [mbot EXCEPT !.status = "STOPPED"]
    /\ mcmd' = "idle"
    /\ UNCHANGED <<bthreads, notMulti>>

\* ---- a worker process dies on its own (crash, SIGKILL from outside)
WorkerDies(pair) ==
    /\ pair \in alive
    /\ alive' = alive \ {pair}
    /\ wk' = [wk EXCEPT ![pair] = "none"]
    /\ orphans' = orphaned(pair)
    /\ engine' = [engine EXCEPT ![pair] = "none"]
    /\ UNCHANGED <<doc, workers, main, mon, hc, ncmd, queued, notSessionWorker>>

\* ---- _monitor_loop on the monitor thread
SetToSeq(S) ==
    IF S = {} THEN <<>>
    ELSE IF Cardinality(S) = 1 THEN <<CHOOSE x \in S : TRUE>>
    ELSE <<"BTC_USDT", "ETH_USDT">>

\* _check_workers_health: list(self.workers.items())
Monitor_Begin ==
    /\ mon.pc = "idle"
    /\ mon' = [mon EXCEPT !.pc = "hc_check", !.todo = SetToSeq(workers)]
    /\ hc' = NoCheck
    /\ UNCHANGED <<doc, workers, alive, main, ncmd, notSession>>

\* _check_workers_health: process.is_alive() for the next worker of the list
Monitor_CheckAlive ==
    /\ mon.pc = "hc_check"
    /\ mon.todo # <<>>
    /\ mon' = IF Head(mon.todo) \in alive
              THEN [mon EXCEPT !.todo = Tail(mon.todo)]
              ELSE [mon EXCEPT !.pc = "hc_get"]
    /\ UNCHANGED <<doc, workers, alive, main, hc, ncmd, notSession>>

\* dead worker: get_bot_status
Monitor_Get ==
    /\ mon.pc = "hc_get"
    /\ LET bs == get_bot_status(doc, Head(mon.todo))
       IN  mon' = [mon EXCEPT !.bs = bs,
                      !.pc = IF bs = NoBot THEN "hc_cleanup" ELSE "hc_set_r"]
    /\ hc' = [pair |-> Head(mon.todo), before |-> doc, done |-> FALSE]
    /\ UNCHANGED <<doc, workers, alive, main, ncmd, notSession>>

\* dead worker: set_bot_status, _read_state
Monitor_SetRead ==
    /\ mon.pc = "hc_set_r"
    /\ mon' = [mon EXCEPT !.pc = "hc_set_w", !.st = doc]
    /\ UNCHANGED <<doc, workers, alive, main, hc, ncmd, notSession>>

\* what _check_workers_health writes for a dead worker
health_mark(bs) == [bs EXCEPT !.status = "ERROR", !.errors = bs.errors + 1]

\* dead worker: set_bot_status, _write_state with status ERROR, errors_count + 1
Monitor_SetWrite ==
    /\ mon.pc = "hc_set_w"
    /\ doc' = set_bot_status(mon.st, Head(mon.todo), health_mark(mon.bs))
    /\ mon' = [mon EXCEPT !.pc = "hc_cleanup", !.st = InitialDoc, !.bs = NoBot]
    /\ UNCHANGED <<workers, alive, main, hc, ncmd, notSession>>

\* dead worker: _cleanup_worker, then the next worker of the list
Monitor_Cleanup ==
    /\ mon.pc = "hc_cleanup"
    /\ workers' = workers \ {Head(mon.todo)}
    /\ mon' = [mon EXCEPT !.pc = "hc_check", !.todo = Tail(mon.todo)]
    /\ UNCHANGED <<doc, alive, main, hc, ncmd, notSession>>

\* _monitor_loop: update_budget_info after the health check
Monitor_Update(total) ==
    /\ mon.pc = "hc_check"
    /\ mon.todo = <<>>
    /\ mon' = [mon EXCEPT !.pc = "mu_budget_r",
                          !.info = budget_info(total, doc.bots)]
    /\ UNCHANGED <<doc, workers, alive, main, hc, ncmd, notSession>>

\* set_budget_info: _read_state
Monitor_BudgetRead ==
    /\ mon.pc = "mu_budget_r"
    /\ mon' = [mon EXCEPT !.pc = "mu_budget_w", !.st = doc]
    /\ UNCHANGED <<doc, workers, alive, main, hc, ncmd, notSession>>

\* set_budget_info: _write_state; the loop then sleeps 5 s
Monitor_BudgetWrite ==
    /\ mon.pc = "mu_budget_w"
    /\ doc' = set_budget_info(mon.st, mon.info)
    /\ mon' = MonIdle
    /\ hc' = [hc EXCEPT !.done = (hc.pair # NoPair)]
    /\ UNCHANGED <<workers, alive, main, ncmd, notSession>>

(***************************************************************************)
(* SlidingWindowRateLimiter of one endpoint category, used by several      *)
(* threads through GateIOClient._request: can_make_request, wait_if_needed *)
(* when refused, then record_request, always.  Each limiter method runs    *)
(* under the limiter's lock and is one step; nothing is held between them. *)
(***************************************************************************)
\* RateLimitManager.VIP_0_LIMITS: SPOT_ORDER and WALLET_WITHDRAWAL
LimiterConfigs == { [max_requests |-> 10, window_seconds |-> 1],
                    [max_requests |-> 1,  window_seconds |-> 3] }

\* RateLimitConfig.safe_max_requests: max(1, int(max_requests * burst_allowance))
safe_max_requests(c) == Max(1, (c.max_requests * BurstPercent) \div 100)

RECURSIVE cleanup_old_requests(_, _, _)
\* _cleanup_old_requests: popleft while requests[0] <= current_time - window
cleanup_old_requests(q, t, c) ==
    IF q # <<>> /\ Head(q) <= t - c.window_seconds
    THEN cleanup_old_requests(Tail(q), t, c)
    ELSE q

\* _request: rate_limit_manager.can_make_request(category)
CanMakeRequest(t) ==
    /\ tpc[t] = "idle"
    /\ Len(log) < MaxRecorded
    /\ requests' = cleanup_old_requests(requests, clock, cfg)
    /\ tpc' = [tpc EXCEPT ![t] =
                  IF Len(requests') < safe_max_requests(cfg) THEN "record" ELSE "wait"]
    /\ UNCHANGED <<clock, twake, cfg, log, notLimiter>>

\* wait_if_needed: time_until_next_request, then time.sleep(wait_time) if > 0
WaitIfNeeded(t) ==
    /\ tpc[t] = "wait"
    /\ requests' = cleanup_old_requests(requests, clock, cfg)
    /\ IF Len(requests') < safe_max_requests(cfg)
       THEN /\ tpc' = [tpc EXCEPT ![t] = "record"]
            /\ UNCHANGED twake
       ELSE LET window_reset_time == Head(requests') + cfg.window_seconds
                wait_time == Max(0, window_reset_time - clock)
            IN  IF wait_time > 0
                THEN /\ tpc' = [tpc EXCEPT ![t] = "sleep"]
                     /\ twake' = [twake EXCEPT ![t] = clock + wait_time]
                ELSE /\ tpc' = [tpc EXCEPT ![t] = "record"]
                     /\ UNCHANGED twake
    /\ UNCHANGED <<clock, cfg, log, notLimiter>>

\* time.sleep(wait_time) returning
WakeUp(t) ==
    /\ tpc[t] = "sleep"
    /\ clock >= twake[t]
    /\ tpc' = [tpc EXCEPT ![t] = "record"]
    /\ twake' = [twake EXCEPT ![t] = 0]
    /\ UNCHANGED <<requests, clock, cfg, log, notLimiter>>

\* _request: rate_limit_manager.record_request(category), always
RecordRequest(t) ==
    /\ tpc[t] = "record"
    /\ requests' = cleanup_old_requests(Append(requests, clock), clock, cfg)
    /\ log' = Append(log, clock)
    /\ tpc' = [tpc EXCEPT ![t] = "idle"]
    /\ UNCHANGED <<clock, twake, cfg, notLimiter>>

\* time.time() advancing by one second
ClockTick ==
    /\ clock < MaxClock
    /\ clock' = clock + 1
    /\ UNCHANGED <<requests, tpc, twake, cfg, log, notLimiter>>

LimiterIdle ==
    /\ requests = <<>>
    /\ clock = 0
    /\ tpc = [t \in Threads |-> "idle"]
    /\ twake = [t \in Threads |-> 0]
    /\ cfg = [max_requests |-> 10, window_seconds |-> 1]
    /\ log = <<>>

(***************************************************************************)
(* The scalping engine.  Prices are in cents of USDT, quantities in        *)
(* thousandths of the base currency, P&L samples in basis points, time in  *)
(* minutes.                                                                *)
(***************************************************************************)
WAITING_TO_BUY == "waiting_to_buy"
POSITION_OPEN == "position_open"
WAITING_FOR_SELL == "waiting_for_sell"

\* what get_ticker can return; NoPrice is its None
Prices == {7000, 8800, 10200}
NoPrice == 0
NoCache == -1
\* time.time() when the engine starts, in minutes
StartTime == 10
SecondsPerMinute == 60

\* scalp_runner / scalp_runner_worker_mode arguments
usdt_per_trade == 100
TargetPerMille == 9
\* start_auto_scalping: safety system on with its defaults, or switched off
SafetyChoices == { [max_daily_loss |-> 1500,  min_win_rate |-> 30],
                   [max_daily_loss |-> 10000, min_win_rate |-> 0] }
TimeoutChoices == {1}
\* what the base balance can be when the engine starts
StartBalances == {0, 1000}

\* dca_levels[*]['trigger_percent'] and ['multiplier']
dca_level1_trigger == -2
dca_level2_trigger == -5
dca_stop_loss_trigger == -10
dca_level1_multiplier == 2
dca_level2_multiplier == 3

\* GateIOLimits.get_min_order_value_with_margin, in cents: 5.0 * 1.15
MIN_ORDER_VALUE_USDT == 5
SafetyMarginPercent == 115
get_min_order_value_with_margin == MIN_ORDER_VALUE_USDT * SafetyMarginPercent

\* OrderFailureTracker.__init__
max_failures == 5
cooldown_seconds == 60
max_backoff == 300

RECURSIVE Pow(_, _)
Pow(b, n) == IF n = 0 THEN 1 ELSE b * Pow(b, n - 1)

\* amount / price with the quantity in thousandths and the price in cents
QtyFor(usdt, price) == (usdt * 100 * 1000) \div price

\* ((current_price - entry_price) / entry_price) * 100 <= trigger
PnlAtOrBelow(current_price, entry_price, trigger) ==
    (current_price - entry_price) * 100 <= trigger * entry_price

\* profit_pnl / 100 as fed to check_trade, in basis points
ProfitPnl(current_price, entry_price) ==
    ((current_price - entry_price) * 10000) \div entry_price

\* ---- SafetySystem
SafetyInit == [daily_pnl |-> 0, trade_history |-> <<>>]

Wins(h) == Cardinality({ i \in DOMAIN h : h[i] > 0 })

\* SafetySystem.check_trade: the state after the call
check_trade_state(sf, pnl) ==
    [daily_pnl |-> sf.daily_pnl + pnl, trade_history |-> Append(sf.trade_history, pnl)]

\* a mutation of check_trade_result: the safety system never denies
check_trade_lenient(sf) == TRUE

\* SafetySystem.check_trade: the value returned, from the state after the call
check_trade_result(sf) ==
    /\ ~(sf.daily_pnl < -params.max_daily_loss)
    /\ ~(/\ Len(sf.trade_history) >= 5
         /\ Wins(sf.trade_history) * 100 < params.min_win_rate * Len(sf.trade_history))

\* ---- OrderFailureTracker
TrackerInit == [failure_count |-> 0, consecutive_failures |-> 0,
                last_failure_time |-> 0, circuit_open |-> FALSE]

\* record_failure
record_failure(tr) ==
    [failure_count |-> tr.failure_count + 1,
     consecutive_failures |-> tr.consecutive_failures + 1,
     last_failure_time |-> now,
     circuit_open |-> (tr.circuit_open \/ tr.failure_count + 1 >= max_failures)]

\* record_success
record_success(tr) ==
    [tr EXCEPT !.failure_count = 0, !.consecutive_failures = 0, !.circuit_open = FALSE]

\* seconds since the last recorded failure
SinceFailure(tr) == (now - tr.last_failure_time) * SecondsPerMinute

\* can_place_order, closed circuit: the exponential backoff has not run out,
\* time - last_failure_time < min(cooldown * 1.5 ** (n - 1), max_backoff)
InBackoff(tr) ==
    /\ tr.consecutive_failures > 0
    /\ SinceFailure(tr) < max_backoff
    /\ SinceFailure(tr) * Pow(2, tr.consecutive_failures - 1)
          < cooldown_seconds * Pow(3, tr.consecutive_failures - 1)

\* can_place_order: the value returned
can_place_order(tr) ==
    IF ~tr.circuit_open THEN ~InBackoff(tr)
    ELSE SinceFailure(tr) >= cooldown_seconds

\* can_place_order: the tracker after the call (an open circuit whose cooldown
\* has elapsed is reset)
can_place_order_state(tr) ==
    IF tr.circuit_open /\ SinceFailure(tr) >= cooldown_seconds
    THEN [tr EXCEPT !.failure_count = 0, !.consecutive_failures = 0,
                    !.circuit_open = FALSE]
    ELSE tr

\* ---- GateIOClient against the exchange
\* get_wallet_balance: the cached value while the cache entry is younger than
\* CACHE_TIMEOUTS['orderbook'], else the balance of the account (available +
\* locked), which it caches; `expired` says the entry has outlived the timeout
get_wallet_balance(expired) ==
    IF wallet_cache # NoCache /\ ~expired THEN wallet_cache ELSE base

\* get_position_info: balance if balance > 0.0001 else 0
get_position_info(expired) ==
    IF get_wallet_balance(expired) > 0 THEN get_wallet_balance(expired) ELSE 0

RECURSIVE LockedBase(_)
\* base currency locked by the open sell orders
LockedBase(os) ==
    IF os = {} THEN 0
    ELSE LET o == CHOOSE x \in os : TRUE
         IN  (IF o.side = "sell" THEN o.qty ELSE 0) + LockedBase(os \ {o})

\* place_spot_order: the parameter validation and the minimum order value;
\* when it fails the call returns {'error': ...} without sending anything
order_valid(qty, price) ==
    /\ qty > 0
    /\ price > 0
    /\ (qty * price) \div 1000 >= get_min_order_value_with_margin

\* POST /spot/orders: the exchange takes the order when the API call gets
\* through and, for a sell, the account has that much base currency free
order_accepted(side, qty, price, api_ok) ==
    /\ order_valid(qty, price)
    /\ api_ok
    /\ side = "sell" => base - LockedBase(orders) >= qty

\* the record kept of an order request that was sent
Sent(side, qty, ok) == [n |-> sent.n + 1, side |-> side, qty |-> qty, ok |-> ok]

\* the open orders after place_spot_order(side, qty, price)
place_spot_order(side, qty, price, api_ok) ==
    IF order_accepted(side, qty, price, api_ok)
    THEN orders \cup {[id |-> sent.n + 1, side |-> side, qty |-> qty, trade |-> trades_done]}
    ELSE orders

\* the history of sent requests after place_spot_order(side, qty, price)
sent_after(side, qty, price, api_ok) ==
    IF order_valid(qty, price)
    THEN Sent(side, qty, order_accepted(side, qty, price, api_ok))
    ELSE sent

\* ---- the engine loop
\* scalp_runner: max_main_loop_iterations = 10000, scaled down
max_main_loop_iterations == 4

\* the client has no list_spot_orders method: check_open_orders' call raises
\* AttributeError, which its bare except turns into False
ClientHasListSpotOrders == FALSE

\* check_open_orders
check_open_orders ==
    IF ClientHasListSpotOrders THEN \E o \in orders : o.side = "sell" ELSE FALSE

\* the bookkeeping of trades and realized P&L samples after a step that leaves
\* the engine in state st and records `samples` realized samples
TallyAfter(st, samples) ==
    [reached  |-> IF st = WAITING_FOR_SELL THEN TRUE
                  ELSE IF st = WAITING_TO_BUY THEN FALSE ELSE tally.reached,
     closed   |-> IF st = WAITING_TO_BUY /\ tally.reached
                  THEN tally.closed + 1 ELSE tally.closed,
     realized |-> tally.realized + samples]

\* the stop signals of the worker loop: scalping_stop_requested, set by the
\* dashboard, and shutdown_event, set by the worker process's signal handler
NoSignal == "none"
Signals == {"stop_requested", "shutdown_event"}

\* `if shutdown_event and shutdown_event.is_set()` and
\* `if ... self.scalping_stop_requested`, both followed by break
\* a mutation of stop_seen: only the supervisor's event stops the loop
stop_shutdown_only(sig) == sig = "shutdown_event"

\* the two checks at the top of the worker loop's body: shutdown_event.is_set()
\* and scalping_stop_requested, each a break
stop_seen(sig) == sig \in Signals

\* scalp_runner: the while condition, the circuit breaker check and the
\* second safety check that open every iteration
RunnerLoopHead ==
    /\ epc = "head"
    /\ params.mode = "runner"
    /\ LET s1 == check_trade_state(safety, 0)
           s2 == check_trade_state(s1, 0)
       IN  IF trades_done >= MaxTrades
           THEN /\ epc' = "done"
                /\ UNCHANGED <<safety, main_loop_iterations, failure_tracker>>
           ELSE IF ~check_trade_result(s1)
                   \/ main_loop_iterations >= max_main_loop_iterations
           THEN /\ epc' = "done"
                /\ safety' = s1
                /\ UNCHANGED <<main_loop_iterations, failure_tracker>>
           ELSE /\ main_loop_iterations' = main_loop_iterations + 1
                /\ failure_tracker' = can_place_order_state(failure_tracker)
                /\ IF ~can_place_order(failure_tracker)
                   THEN /\ epc' = "head"
                        /\ safety' = s1
                   ELSE /\ epc' = IF check_trade_result(s2) THEN "body" ELSE "done"
                        /\ safety' = s2
    /\ UNCHANGED <<params, signal, dust_since, current_state, position, dca, trades_done, locals,
                   base, orders, wallet_cache, now, sent, tally, notEngine>>

\* scalp_runner_worker_mode: is_pair_blocked(pair) before the loop, return
WorkerBlocked ==
    /\ epc = "head"
    /\ params.mode = "worker"
    /\ params.blocked
    /\ epc' = "done"
    /\ UNCHANGED <<params, signal, dust_since, current_state, position, dca,
                   trades_done, main_loop_iterations, locals, safety,
                   failure_tracker, base, orders, wallet_cache, now, sent, tally,
                   notEngine>>

\* scalping_stop_requested = True (the dashboard, while scalping_active) or
\* shutdown_event.set() (SIGINT / SIGTERM of the worker process); both reach
\* only the worker loop
SetSignal(sig) ==
    /\ params.mode = "worker"
    /\ ~params.blocked
    /\ epc # "done"
    /\ signal = NoSignal
    /\ signal' = sig
    /\ UNCHANGED <<params, dust_since, epc, current_state, position, dca,
                   trades_done, main_loop_iterations, locals, safety,
                   failure_tracker, base, orders, wallet_cache, now, sent, tally,
                   notEngine>>

\* scalp_runner_worker_mode: the while condition and the stop checks
\* (shutdown_event, scalping_stop_requested, _check_scalping_user_input:
\* `stop` is what the last one returns)
WorkerLoopHead(stop) ==
    /\ epc = "head"
    /\ params.mode = "worker"
    /\ ~params.blocked
    /\ main_loop_iterations < MaxLoopIterations
    /\ LET s1 == check_trade_state(safety, 0)
       IN  IF trades_done >= MaxTrades
           THEN /\ epc' = "done"
                /\ UNCHANGED <<safety, main_loop_iterations>>
           ELSE /\ safety' = s1
                /\ IF ~check_trade_result(s1) \/ stop_seen(signal) \/ stop
                   THEN /\ epc' = "done"
                        /\ UNCHANGED main_loop_iterations
                   ELSE /\ epc' = "body"
                        /\ main_loop_iterations' = main_loop_iterations + 1
    /\ UNCHANGED <<params, signal, dust_since, current_state, position, dca, trades_done, locals,
                   failure_tracker, base, orders, wallet_cache, now, sent, tally,
                   notEngine>>

\* state WAITING_FOR_SELL; p is what get_ticker returns
WaitingForSell(p, expired) ==
    /\ epc = "body"
    /\ current_state = WAITING_FOR_SELL
    /\ wallet_cache' = get_wallet_balance(expired)
    /\ epc' = "head"
    /\ IF get_position_info(expired) = 0
       THEN LET current_price == IF p = NoPrice THEN position.entry_price ELSE p
                profit_pnl == IF position.entry_price > 0
                              THEN ProfitPnl(current_price, position.entry_price)
                              ELSE 0
            IN  /\ safety' = check_trade_state(safety, profit_pnl)
                /\ current_state' = WAITING_TO_BUY
                /\ trades_done' = trades_done + 1
                /\ position' = [position EXCEPT !.entry_price = 0, !.quantity = 0]
                /\ tally' = TallyAfter(WAITING_TO_BUY, 1)
       ELSE /\ current_state' = IF ~check_open_orders THEN POSITION_OPEN
                                ELSE WAITING_FOR_SELL
            /\ tally' = TallyAfter(current_state', 0)
            /\ UNCHANGED <<safety, trades_done, position>>
    /\ UNCHANGED <<params, signal, dust_since, dca, main_loop_iterations, locals, failure_tracker,
                   base, orders, now, sent, notEngine>>

\* state WAITING_TO_BUY with a balance already there: the virtual entry;
\* p is the price get_ticker, or else get_best_book_price, returns
WaitingToBuy_VirtualEntry(p, expired) ==
    /\ epc = "body"
    /\ current_state = WAITING_TO_BUY
    /\ get_position_info(expired) > 0
    /\ wallet_cache' = get_wallet_balance(expired)
    /\ epc' = "head"
    /\ IF p # NoPrice
       THEN /\ position' = [entry_price |-> p, quantity |-> get_position_info(expired),
                            time |-> now]
            /\ dca' = [level1 |-> FALSE, level2 |-> FALSE, level3 |-> FALSE,
                       weighted_avg_price |-> p]
            /\ current_state' = POSITION_OPEN
       ELSE UNCHANGED <<position, dca, current_state>>
    /\ UNCHANGED <<params, signal, dust_since, trades_done, main_loop_iterations, locals, safety,
                   failure_tracker, base, orders, now, sent, tally, notEngine>>

\* state WAITING_TO_BUY, no balance: too little market data, entry conditions
\* not met or qty <= 0, the iteration sleeps and continues
WaitingToBuy_Skip(expired) ==
    /\ epc = "body"
    /\ current_state = WAITING_TO_BUY
    /\ get_position_info(expired) = 0
    /\ wallet_cache' = get_wallet_balance(expired)
    /\ epc' = "head"
    /\ UNCHANGED <<params, signal, dust_since, current_state, position, dca, trades_done,
                   main_loop_iterations, locals, safety, failure_tracker,
                   base, orders, now, sent, tally, notEngine>>

\* state WAITING_TO_BUY, no balance, entry conditions met: the entry buy of
\* usdt_per_trade at best_ask * 1.002; an order the exchange took is polled
WaitingToBuy_Buy(best_ask, api_ok, expired) ==
    /\ epc = "body"
    /\ current_state = WAITING_TO_BUY
    /\ get_position_info(expired) = 0
    /\ sent.n < MaxSent
    /\ wallet_cache' = get_wallet_balance(expired)
    /\ LET optimal_buy_price == (best_ask * 1002) \div 1000
           qty == QtyFor(usdt_per_trade, optimal_buy_price)
       IN  /\ orders' = place_spot_order("buy", qty, optimal_buy_price, api_ok)
           /\ sent' = sent_after("buy", qty, optimal_buy_price, api_ok)
           /\ IF order_accepted("buy", qty, optimal_buy_price, api_ok)
              THEN /\ epc' = "poll"
                   /\ locals' = [locals EXCEPT !.currency_bound = TRUE, !.qty = qty]
              ELSE /\ epc' = "head"
                   /\ locals' = [locals EXCEPT !.currency_bound = TRUE]
    /\ UNCHANGED <<params, signal, dust_since, current_state, position, dca, trades_done,
                   main_loop_iterations, safety, failure_tracker, base, now,
                   tally, notEngine>>

\* the wait for the fill: up to 25 balance reads in 5 s.  The block that sets
\* position_entry_price, position_quantity, position_time and resets the DCA
\* levels sits in the except handler of the balance read, which
\* get_wallet_balance never reaches: a fill only sets the state
FillPoll(expired) ==
    /\ epc = "poll"
    /\ wallet_cache' = get_wallet_balance(expired)
    /\ LET bal == get_wallet_balance(expired)
           executed == bal > 0 /\ bal * 1000 >= locals.qty * 999
       IN  current_state' = IF executed THEN POSITION_OPEN ELSE current_state
    /\ epc' = "head"
    /\ locals' = [locals EXCEPT !.qty = 0]
    /\ UNCHANGED <<params, signal, dust_since, position, dca, trades_done, main_loop_iterations,
                   safety, failure_tracker, base, orders, now, sent,
                   tally, notEngine>>

\* state POSITION_OPEN and the balance is gone
PositionOpen_Closed(expired) ==
    /\ epc = "body"
    /\ current_state = POSITION_OPEN
    /\ get_position_info(expired) = 0
    /\ wallet_cache' = get_wallet_balance(expired)
    /\ current_state' = WAITING_TO_BUY
    /\ trades_done' = trades_done + 1
    /\ tally' = TallyAfter(WAITING_TO_BUY, 0)
    /\ epc' = "head"
    /\ UNCHANGED <<params, signal, dust_since, position, dca, main_loop_iterations, locals, safety,
                   failure_tracker, base, orders, now, sent, notEngine>>

\* the DCA buy of a level: position and average after the exchange took it
dca_executed(dca_quantity, current_price) ==
    LET total_quantity == position.quantity + dca_quantity
        total_invested == position.quantity * position.entry_price
                          + dca_quantity * current_price
    IN  [quantity |-> total_quantity, avg |-> total_invested \div total_quantity]

\* a mutation of dca_level2_activated: activating level 2 clears level 1
dca_level2_alone(d, avg) ==
    [d EXCEPT !.level1 = FALSE, !.level2 = TRUE, !.weighted_avg_price = avg]

\* the DCA flags after the level 2 buy was taken
dca_level2_activated(d, avg) ==
    [d EXCEPT !.level2 = TRUE, !.weighted_avg_price = avg]

\* state POSITION_OPEN with a balance: the target check, else the DCA levels
\* and the stop loss; p is what get_ticker returns
PositionOpen_Monitor(p, api_ok, expired) ==
    /\ epc = "body"
    /\ current_state = POSITION_OPEN
    /\ get_position_info(expired) > 0
    /\ sent.n < MaxSent
    /\ wallet_cache' = get_wallet_balance(expired)
    /\ LET entry == position.entry_price
           current_price == IF p = NoPrice THEN entry ELSE p
           effective_entry_price == IF dca.level1 \/ dca.level2
                                    THEN dca.weighted_avg_price ELSE entry
           reached == current_price * 1000 >= effective_entry_price * (1000 + TargetPerMille)
           buy_price == (current_price * 1002) \div 1000
           dca1 == /\ PnlAtOrBelow(current_price, entry, dca_level1_trigger)
                   /\ ~dca.level1
           dca2 == /\ ~dca1
                   /\ PnlAtOrBelow(current_price, entry, dca_level2_trigger)
                   /\ ~dca.level2
                   /\ dca.level1
           stop == /\ ~dca1
                   /\ ~dca2
                   /\ PnlAtOrBelow(current_price, entry, dca_stop_loss_trigger)
                   /\ ~dca.level3
           dca_quantity == QtyFor(usdt_per_trade * (IF dca1 THEN dca_level1_multiplier
                                                    ELSE dca_level2_multiplier),
                                  current_price)
       IN  IF entry = 0
           THEN \* `if position_entry_price > 0` fails: only the sleep
                /\ epc' = "head"
                /\ UNCHANGED <<current_state, position, dca, locals,
                               failure_tracker, orders, sent, tally>>
           ELSE IF reached /\ ~locals.currency_bound
           THEN \* the log line before the sell reads `currency`, which only
                \* the entry buy binds: UnboundLocalError, caught by the
                \* loop's except Exception
                /\ epc' = "head"
                /\ UNCHANGED <<current_state, position, dca, locals,
                               failure_tracker, orders, sent, tally>>
           ELSE IF reached
           THEN \* target reached: sell position_quantity
                LET ok == order_accepted("sell", position.quantity, current_price, api_ok)
                IN  /\ orders' = place_spot_order("sell", position.quantity, current_price, api_ok)
                    /\ sent' = sent_after("sell", position.quantity, current_price, api_ok)
                    /\ failure_tracker' = IF ok THEN record_success(failure_tracker)
                                          ELSE record_failure(failure_tracker)
                    /\ current_state' = IF ok THEN WAITING_FOR_SELL ELSE current_state
                    /\ tally' = TallyAfter(current_state', 0)
                    /\ IF params.mode = "worker"
                       THEN /\ epc' = "timeout"
                            /\ locals' = [locals EXCEPT !.current_price = current_price]
                       ELSE /\ epc' = "head"
                            /\ UNCHANGED locals
                    /\ UNCHANGED <<position, dca>>
           ELSE IF dca1 \/ dca2
           THEN \* DCA level 1 or 2: buy usdt_per_trade * multiplier more
                LET ok == order_accepted("buy", dca_quantity, buy_price, api_ok)
                    after == dca_executed(dca_quantity, current_price)
                IN  /\ orders' = place_spot_order("buy", dca_quantity, buy_price, api_ok)
                    /\ sent' = sent_after("buy", dca_quantity, buy_price, api_ok)
                    /\ failure_tracker' = IF ok THEN failure_tracker
                                          ELSE record_failure(failure_tracker)
                    /\ position' = IF ok
                                   THEN [position EXCEPT !.quantity = after.quantity,
                                                         !.entry_price = after.avg]
                                   ELSE position
                    /\ dca' = IF ~ok THEN dca
                              ELSE IF dca1
                              THEN [dca EXCEPT !.level1 = TRUE, !.weighted_avg_price = after.avg]
                              ELSE dca_level2_activated(dca, after.avg)
                    /\ locals' = [locals EXCEPT !.current_price = current_price]
                    /\ epc' = "timeout"
                    /\ UNCHANGED <<current_state, tally>>
           ELSE IF stop
           THEN \* DCA level 3, the stop loss: sell position_quantity
                LET ok == order_accepted("sell", position.quantity, current_price, api_ok)
                IN  /\ orders' = place_spot_order("sell", position.quantity, current_price, api_ok)
                    /\ sent' = sent_after("sell", position.quantity, current_price, api_ok)
                    /\ failure_tracker' = IF ok THEN failure_tracker
                                          ELSE record_failure(failure_tracker)
                    /\ dca' = IF ok THEN [dca EXCEPT !.level3 = TRUE] ELSE dca
                    /\ current_state' = IF ok THEN WAITING_FOR_SELL ELSE current_state
                    /\ tally' = TallyAfter(current_state', 0)
                    /\ locals' = [locals EXCEPT !.current_price = current_price]
                    /\ epc' = "timeout"
                    /\ UNCHANGED position
           ELSE /\ locals' = [locals EXCEPT !.current_price = current_price]
                /\ epc' = "timeout"
                /\ UNCHANGED <<current_state, position, dca, failure_tracker,
                               orders, sent, tally>>
    /\ dust_since' = [level1 |-> dust_since.level1 /\ ~(~dca.level1 /\ dca'.level1),
                      level2 |-> dust_since.level2 /\ ~(~dca.level2 /\ dca'.level2),
                      level3 |-> dust_since.level3 /\ ~(~dca.level3 /\ dca'.level3)]
    /\ UNCHANGED <<params, signal, trades_done, main_loop_iterations, safety, base,
                   now, notEngine>>

\* state POSITION_OPEN, the safety timeout that follows the DCA block (and,
\* in worker mode, the target sell too): sell position_quantity once the
\* position is older than timeout_minutes
PositionOpen_Timeout(api_ok) ==
    /\ epc = "timeout"
    /\ sent.n < MaxSent
    /\ epc' = "head"
    /\ locals' = [locals EXCEPT !.current_price = 0]
    /\ LET time_in_position == (now - position.time) * SecondsPerMinute
           timeout_seconds == params.timeout_minutes * SecondsPerMinute
           price == locals.current_price
       IN  IF params.timeout_minutes > 0 /\ time_in_position > timeout_seconds
           THEN /\ orders' = place_spot_order("sell", position.quantity, price, api_ok)
                /\ sent' = sent_after("sell", position.quantity, price, api_ok)
                /\ current_state' =
                      IF order_accepted("sell", position.quantity, price, api_ok)
                      THEN WAITING_FOR_SELL ELSE current_state
                /\ tally' = TallyAfter(current_state', 0)
           ELSE UNCHANGED <<orders, sent, current_state, tally>>
    /\ UNCHANGED <<params, signal, dust_since, position, dca, trades_done, main_loop_iterations,
                   safety, failure_tracker, base, wallet_cache, now, notEngine>>

\* ---- the exchange and the clock
\* an open order fills
OrderFills(o) ==
    /\ epc # "done"
    /\ o \in orders
    /\ o.side = "sell" => base >= o.qty
    /\ base' = IF o.side = "buy" THEN base + o.qty ELSE base - o.qty
    /\ orders' = orders \ {o}
    /\ dust_since' = IF base' = 0
                     THEN [level1 |-> dca.level1, level2 |-> dca.level2,
                           level3 |-> dca.level3]
                     ELSE dust_since
    /\ UNCHANGED <<params, signal, epc, current_state, position, dca, trades_done,
                   main_loop_iterations, locals, safety, failure_tracker,
                   wallet_cache, now, sent, tally, notEngine>>

\* a minute passes in the sleep that ends an iteration
MinutePasses ==
    /\ epc = "head"
    /\ now < StartTime + MaxElapsed
    /\ now' = now + 1
    /\ UNCHANGED <<params, signal, dust_since, epc, current_state, position, dca, trades_done,
                   main_loop_iterations, locals, safety, failure_tracker,
                   base, orders, wallet_cache, sent, tally, notEngine>>

\* the tracker when the engine starts: new, or left by the manual order
\* handler with four failures behind it, the last one five minutes ago
TrackerStarts ==
    { TrackerInit,
      [failure_count |-> max_failures - 1, consecutive_failures |-> max_failures - 1,
       last_failure_time |-> StartTime - (max_backoff \div SecondsPerMinute),
       circuit_open |-> FALSE] }

EngineStart ==
    /\ epc = "head"
    /\ current_state = WAITING_TO_BUY
    /\ position = [entry_price |-> 0, quantity |-> 0, time |-> 0]
    /\ dca = [level1 |-> FALSE, level2 |-> FALSE, level3 |-> FALSE,
              weighted_avg_price |-> 0]
    /\ trades_done = 0
    /\ main_loop_iterations = 0
    /\ locals = [currency_bound |-> FALSE, qty |-> 0, current_price |-> 0]
    /\ safety = SafetyInit
    /\ orders = {}
    /\ wallet_cache = NoCache
    /\ now = StartTime
    /\ sent = [n |-> 0, side |-> "none", qty |-> 0, ok |-> FALSE]
    /\ tally = [reached |-> FALSE, closed |-> 0, realized |-> 0]
    /\ signal = NoSignal
    /\ dust_since = [level1 |-> FALSE, level2 |-> FALSE, level3 |-> FALSE]

EngineIdle ==
    /\ EngineStart
    /\ params = [mode |-> "runner", max_daily_loss |-> 1500, min_win_rate |-> 30,
                 timeout_minutes |-> 1, blocked |-> FALSE]
    /\ failure_tracker = TrackerInit
    /\ base = 0

(***************************************************************************)
(* ApiRetryManager (api_retry_manager.py): execute_with_retry with its     *)
(* GateIORateLimitHandler, ExponentialBackoffCalculator and                *)
(* CircuitBreaker.  Time is in tenths of a second.                         *)
(***************************************************************************)
TenthsPerSecond == 10
\* time.time() when the model starts, the engine's StartTime in tenths
RetryStart == StartTime * SecondsPerMinute * TenthsPerSecond

Min(a, b) == IF a <= b THEN a ELSE b

\* RetryableErrorType
RATE_LIMIT == "rate_limit"
NETWORK_ERROR == "network"
API_ERROR == "api_error"

\* RetryConfig() with its defaults, and the one create_gate_io_retry_manager
\* builds; backoff_multiplier 1.5 is in percent
RetryConfigs ==
    { [max_attempts |-> 5, base_delay |-> 10, max_delay |-> d,
       exponential_base |-> 2, jitter |-> TRUE, backoff_multiplier |-> 150] :
      d \in {600, 3000} }

\* the Retry-After header of a 429 response, in seconds; NoHeader: not sent
NoHeader == 0
RetryAfterHeaders == {NoHeader, 10, 600}

\* the exceptions the operation raises: the type the classifier gives them,
\* the Retry-After header of error.response and the truth value of
\* error.response, which the HTTP library decides
Errors ==
    [type : {API_ERROR, NETWORK_ERROR}, retry_after : {NoHeader},
     response_truthy : {FALSE}]
    \cup [type : {RATE_LIMIT}, retry_after : RetryAfterHeaders,
          response_truthy : BOOLEAN]
NoError == [type |-> "none", retry_after |-> NoHeader, response_truthy |-> FALSE]

\* random.uniform(-jitter_range, jitter_range): its two ends, in units of
\* jitter_range
JitterChoices == {-1, 1}
\* random.uniform(0, 30.0): its two ends
FallbackJitter == {0, 300}

\* ---- GateIORateLimitHandler
min_interval == 1
RateLimitFallback == 600
RetryAfterMarginPercent == 120
HandlerInit == [last_request_time |-> 0, rate_limit_until |-> 0]

\* handle_rate_limit: the delay returned; u is the random part of the fallback
handle_rate_limit(retry_after, u) ==
    IF retry_after # NoHeader
    THEN (retry_after * TenthsPerSecond * RetryAfterMarginPercent) \div 100
    ELSE RateLimitFallback + u

\* can_make_request at time t: the value returned
can_make_request(h, t) ==
    /\ ~(t < h.rate_limit_until)
    /\ ~(t - h.last_request_time < min_interval)

\* ---- ExponentialBackoffCalculator.calculate_delay; j is the jitter drawn
JitterPercent == 20
calculate_delay(a, config, error_type, j) ==
    LET d0 == config.base_delay * Pow(config.exponential_base, a - 1)
        d1 == IF error_type = RATE_LIMIT THEN Max(d0, RateLimitFallback) ELSE d0
        d2 == (d1 * config.backoff_multiplier) \div 100
        d3 == Min(d2, config.max_delay)
        d4 == IF config.jitter THEN d3 + (j * ((d3 * JitterPercent) \div 100)) ELSE d3
    IN  IF a <= 0 THEN 0 ELSE Max(1, d4)

\* ---- CircuitBreaker
failure_threshold == 5
recovery_timeout == 3000
BreakerInit == [failure_count |-> 0, last_failure_time |-> 0, state |-> "CLOSED"]

\* CircuitBreaker.record_failure at time t
breaker_record_failure(b, t) ==
    [failure_count |-> b.failure_count + 1,
     last_failure_time |-> t,
     state |-> IF b.failure_count + 1 >= failure_threshold THEN "OPEN" ELSE b.state]

\* CircuitBreaker.record_success
breaker_record_success(b) ==
    IF b.state = "HALF_OPEN"
    THEN [b EXCEPT !.state = "CLOSED", !.failure_count = 0]
    ELSE b

\* can_proceed with the cooldown compared strictly
can_proceed_late(b, t) ==
    IF b.state = "OPEN" THEN t - b.last_failure_time > recovery_timeout ELSE TRUE

\* CircuitBreaker.can_proceed at time t: the value returned
can_proceed(b, t) ==
    IF b.state = "OPEN" THEN t - b.last_failure_time >= recovery_timeout ELSE TRUE

\* CircuitBreaker.can_proceed at time t: the breaker after the call
can_proceed_state(b, t) ==
    IF b.state = "OPEN" /\ t - b.last_failure_time >= recovery_timeout
    THEN [b EXCEPT !.state = "HALF_OPEN"]
    ELSE b

\* ---- ApiRetryManager
\* _extract_retry_after: the header when error.response is truthy, else None
extract_retry_after(e) ==
    IF e.response_truthy /\ e.retry_after # NoHeader THEN e.retry_after ELSE NoHeader

\* the delay execute_with_retry computes for exception e at this attempt
retry_delay(e, j, u) ==
    IF e.type = RATE_LIMIT
    THEN handle_rate_limit(extract_retry_after(e), u)
    ELSE calculate_delay(attempt, rcfg, e.type, j)

\* `for attempt in range(1, self.config.max_attempts + 1)`
in_range(a) == a <= rcfg.max_attempts

\* the last-attempt test one attempt late
last_attempt_late(a) == a > rcfg.max_attempts

\* `if attempt >= self.config.max_attempts`
last_attempt(a) == a >= rcfg.max_attempts

NewCall == [invocations |-> 0, failed |-> 0, skips |-> 0, slept |-> 0,
            last_error |-> NoError, last_delay |-> 0]

\* the handler of a new manager, and of a manager that was used before: just
\* after a request, and rate limited for another 60 s by the 429 that ended
\* its last call
HandlerStarts ==
    { HandlerInit,
      [last_request_time |-> RetryStart, rate_limit_until |-> 0],
      [last_request_time |-> RetryStart,
       rate_limit_until |-> RetryStart + RateLimitFallback] }

\* the breaker of a new manager, of one with four failed calls behind it, and
\* of one whose fifth call has just failed
BreakerStarts ==
    { BreakerInit,
      [failure_count |-> failure_threshold - 1, last_failure_time |-> RetryStart,
       state |-> "CLOSED"],
      [failure_count |-> failure_threshold, last_failure_time |-> RetryStart,
       state |-> "OPEN"] }

\* execute_with_retry is called: the circuit breaker is asked first
Execute_Begin ==
    /\ rpc = "idle"
    /\ circuit_breaker' = can_proceed_state(circuit_breaker, rtime)
    /\ IF can_proceed(circuit_breaker, rtime)
       THEN rpc' = "loop" /\ attempt' = 1
       ELSE rpc' = "blocked" /\ attempt' = attempt
    /\ rcall' = NewCall
    /\ UNCHANGED <<rcfg, rtime, rate_handler, notRetry>>

\* one pass of the loop, the rate handler says no: sleep 0.1 s and continue
Attempt_Skip ==
    /\ rpc = "loop"
    /\ in_range(attempt)
    /\ ~can_make_request(rate_handler, rtime)
    /\ rtime' = rtime + 1
    /\ rcall' = [rcall EXCEPT !.skips = @ + 1, !.slept = @ + 1]
    /\ attempt' = attempt + 1
    /\ UNCHANGED <<rcfg, rpc, rate_handler, circuit_breaker, notRetry>>

\* one pass of the loop, the operation returns
Attempt_Success ==
    /\ rpc = "loop"
    /\ in_range(attempt)
    /\ can_make_request(rate_handler, rtime)
    /\ rate_handler' = [rate_handler EXCEPT !.last_request_time = rtime]
    /\ circuit_breaker' = breaker_record_success(circuit_breaker)
    /\ rcall' = [rcall EXCEPT !.invocations = @ + 1]
    /\ rpc' = "returned"
    /\ UNCHANGED <<rcfg, attempt, rtime, notRetry>>

\* one pass of the loop, the operation raises e
Attempt_Failure(e, j, u) ==
    /\ rpc = "loop"
    /\ in_range(attempt)
    /\ can_make_request(rate_handler, rtime)
    /\ LET delay == retry_delay(e, j, u)
       IN  /\ rate_handler' =
                 [last_request_time |-> rtime,
                  rate_limit_until |-> IF e.type = RATE_LIMIT THEN rtime + delay
                                       ELSE rate_handler.rate_limit_until]
           /\ IF last_attempt(attempt)
              THEN /\ circuit_breaker' = breaker_record_failure(circuit_breaker, rtime)
                   /\ rpc' = "raised"
                   /\ rcall' = [rcall EXCEPT !.invocations = @ + 1, !.failed = @ + 1,
                                             !.last_error = e, !.last_delay = delay]
                   /\ UNCHANGED <<attempt, rtime>>
              ELSE /\ rtime' = rtime + delay
                   /\ attempt' = attempt + 1
                   /\ rcall' = [rcall EXCEPT !.invocations = @ + 1, !.failed = @ + 1,
                                             !.slept = @ + delay,
                                             !.last_error = e, !.last_delay = delay]
                   /\ UNCHANGED <<rpc, circuit_breaker>>
    /\ UNCHANGED <<rcfg, notRetry>>

\* the loop ran out of attempts without a break: "All attempts failed"
Loop_Exhausted ==
    /\ rpc = "loop"
    /\ ~in_range(attempt)
    /\ rpc' = "raised"
    /\ UNCHANGED <<rcfg, attempt, rtime, rate_handler, circuit_breaker, rcall,
                   notRetry>>

RetryIdle ==
    /\ rcfg \in { c \in RetryConfigs : c.max_delay = 600 }
    /\ rpc = "idle"
    /\ attempt = 0
    /\ rtime = RetryStart
    /\ rate_handler = HandlerInit
    /\ circuit_breaker = BreakerInit
    /\ rcall = NewCall

(***************************************************************************)
(* The two breakers as their callers drive them: the caller asks, and an   *)
(* order or call it was let through may be reported back as a failure or a *)
(* success.  scalp_runner and the manual order handler ask the             *)
(* OrderFailureTracker (scalp_runner_worker_mode never does);              *)
(* execute_with_retry asks the CircuitBreaker.  One run watches one of the *)
(* two breakers, the one whose caller is live.                             *)
(***************************************************************************)
NoAnswer == [live |-> FALSE, permit |-> FALSE, answer |-> "none", asked_at |-> 0,
             opened_at |-> 0, half_open |-> FALSE]

Answer(was_open, r) ==
    IF was_open THEN (IF r THEN "open_yes" ELSE "open_no")
    ELSE (IF r THEN "closed_yes" ELSE "closed_no")

\* `if not self.failure_tracker.can_place_order():` at the top of a
\* scalp_runner iteration and of the manual order handler
Tracker_Ask ==
    /\ tk.live
    /\ failure_tracker' = can_place_order_state(failure_tracker)
    /\ tk' = [tk EXCEPT !.permit = can_place_order(failure_tracker),
                        !.answer = Answer(failure_tracker.circuit_open,
                                          can_place_order(failure_tracker)),
                        !.asked_at = now,
                        !.half_open = @ \/ (/\ failure_tracker.circuit_open
                                            /\ can_place_order(failure_tracker))]
    /\ UNCHANGED <<now, rtime, circuit_breaker, cb, notBreaker>>

\* the order that was let through fails: record_failure
Tracker_Failure ==
    /\ tk.permit
    /\ failure_tracker' = record_failure(failure_tracker)
    /\ tk' = [tk EXCEPT !.permit = FALSE, !.answer = "none", !.half_open = FALSE,
                        !.opened_at = IF /\ ~failure_tracker.circuit_open
                                          /\ failure_tracker'.circuit_open
                                       THEN now ELSE @]
    /\ UNCHANGED <<now, rtime, circuit_breaker, cb, notBreaker>>

\* the order that was let through is taken: record_success
Tracker_Success ==
    /\ tk.permit
    /\ failure_tracker' = record_success(failure_tracker)
    /\ tk' = [tk EXCEPT !.permit = FALSE, !.answer = "none", !.half_open = FALSE]
    /\ UNCHANGED <<now, rtime, circuit_breaker, cb, notBreaker>>

\* `if not self.circuit_breaker.can_proceed():` at the start of
\* execute_with_retry
Breaker_Ask ==
    /\ cb.live
    /\ circuit_breaker' = can_proceed_state(circuit_breaker, rtime)
    /\ cb' = [cb EXCEPT !.permit = can_proceed(circuit_breaker, rtime),
                        !.answer = Answer(circuit_breaker.state = "OPEN",
                                          can_proceed(circuit_breaker, rtime)),
                        !.asked_at = rtime]
    /\ UNCHANGED <<now, rtime, failure_tracker, tk, notBreaker>>

\* the call that was let through fails on its last attempt: record_failure
Breaker_Failure ==
    /\ cb.permit
    /\ circuit_breaker' = breaker_record_failure(circuit_breaker, rtime)
    /\ cb' = [cb EXCEPT !.permit = FALSE, !.answer = "none",
                        !.opened_at = IF /\ circuit_breaker.state # "OPEN"
                                          /\ circuit_breaker'.state = "OPEN"
                                       THEN rtime ELSE @]
    /\ UNCHANGED <<now, rtime, failure_tracker, tk, notBreaker>>

\* the call that was let through returns: record_success
Breaker_Success ==
    /\ cb.permit
    /\ circuit_breaker' = breaker_record_success(circuit_breaker)
    /\ cb' = [cb EXCEPT !.permit = FALSE, !.answer = "none"]
    /\ UNCHANGED <<now, rtime, failure_tracker, tk, notBreaker>>

\* a minute passes on both clocks
BreakerClock ==
    /\ now < StartTime + MaxBreakerMinutes
    /\ now' = now + 1
    /\ rtime' = rtime + SecondsPerMinute * TenthsPerSecond
    /\ UNCHANGED <<failure_tracker, circuit_breaker, tk, cb, notBreaker>>

CallerIdle ==
    /\ tk = NoAnswer
    /\ cb = NoAnswer

(***************************************************************************)
(* SafeSleepManager (safe_sleep_manager.py) and the sleeps of the engine   *)
(* loop.  Durations are in ticks of 0.1 ms, so that 10 * 1.5^5 seconds and *)
(* the +-10% jitter are whole numbers.                                     *)
(***************************************************************************)
TicksPerSecond == 10000
CIRCUIT_BREAKER == "circuit_breaker"
API_RETRY == "api_retry"
TRADING_CYCLE == "trading_cycle"
SleepContexts == {CIRCUIT_BREAKER, API_RETRY, TRADING_CYCLE}

\* create_trading_sleep_manager: min 0.1 s, max 30 s, 1800 s in all
TradingSleepLimits ==
    [min_sleep |-> 1000, max_sleep |-> 30 * TicksPerSecond,
     max_total_wait |-> 1800 * TicksPerSecond]
\* create_api_sleep_manager: min 0.2 s, max 300 s, 3600 s in all
ApiSleepLimits ==
    [min_sleep |-> 2000, max_sleep |-> 300 * TicksPerSecond,
     max_total_wait |-> 3600 * TicksPerSecond]

\* Durations a caller asks for: none, 30 s, 569 s, 900 s
SleepDurations == {0, 30 * TicksPerSecond, 569 * TicksPerSecond,
                   900 * TicksPerSecond}
\* random.uniform(0.9, 1.1), in percent: the two ends
JitterFactors == {90, 110}
\* ticks by which time.sleep returns late
Overshoots == {0, 1}
\* sleep_between_cycles as the operator enters it: the default and 60 s
CycleSleeps == {5000, 60 * TicksPerSecond}
\* Calls of the manager by a caller alone, and iterations of the engine loop
MaxSleepCalls == 4
MaxSleepSteps == 32

\* SafeSleepManager._sanitize_duration
sanitize_duration(limits, duration, context) ==
    IF duration <= 0
    THEN limits.min_sleep
    ELSE LET max_allowed ==
                 IF context = CIRCUIT_BREAKER
                 THEN Min(duration, 600 * TicksPerSecond)
                 ELSE IF context = API_RETRY
                 THEN Min(duration, limits.max_sleep)
                 ELSE Min(duration, Min(limits.max_sleep, 30 * TicksPerSecond))
         IN  Max(limits.min_sleep, Min(max_allowed, duration))

\* SafeSleepManager.safe_sleep: the manager after the call, what the call
\* returned and how long it slept; factor is the jitter drawn, overshoot the
\* lateness of time.sleep
safe_sleep(m, duration, context, jitter, factor, overshoot) ==
    LET safe_duration == sanitize_duration(m.limits, duration, context)
    IN  IF m.total_sleep_time + safe_duration > m.limits.max_total_wait
        THEN [manager |-> m, returned |-> FALSE, slept |-> 0]
        ELSE LET jittered == IF jitter /\ context # CIRCUIT_BREAKER
                             THEN Max(m.limits.min_sleep,
                                      (safe_duration * factor) \div 100)
                             ELSE safe_duration
                 actual_duration == jittered + overshoot
             IN  [manager |-> [m EXCEPT !.total_sleep_time = @ + actual_duration],
                  returned |-> TRUE, slept |-> actual_duration]

\* SafeSleepManager.circuit_breaker_sleep: min(10 * 1.5^failure_count, 300) s
circuit_breaker_delay(failure_count) ==
    Min((10 * TicksPerSecond * 3^failure_count) \div 2^failure_count,
        300 * TicksPerSecond)

\* SafeSleepManager.rate_limit_sleep: Retry-After * 1.2, or 60 s
rate_limit_delay(retry_after) ==
    IF retry_after = NoHeader THEN 60 * TicksPerSecond
    ELSE (retry_after * TicksPerSecond * 12) \div 10

NoCall == [n |-> 0, returned |-> TRUE]
CallRecord(r) == [n |-> scall.n + 1, returned |-> r.returned]

SleepIdle ==
    /\ sleep_manager = [limits |-> TradingSleepLimits, total_sleep_time |-> 0]
    /\ scall = NoCall
    /\ sleeper = [use |-> "none", sleep_between_cycles |-> 0, iterations |-> 0,
                  slept |-> 0, running |-> FALSE]

\* ---- a caller that sleeps through the manager alone
ManagerCall(r) ==
    /\ sleep_manager' = r.manager
    /\ scall' = CallRecord(r)
    /\ sleeper' = [sleeper EXCEPT !.slept = @ + r.slept]
    /\ UNCHANGED notSleep

SafeSleep(duration, context, jitter, factor, overshoot) ==
    /\ sleeper.use = "api"
    /\ scall.n < MaxSleepCalls
    /\ ManagerCall(safe_sleep(sleep_manager, duration, context, jitter, factor,
                              overshoot))

CircuitBreakerSleep(failure_count, overshoot) ==
    /\ sleeper.use = "api"
    /\ scall.n < MaxSleepCalls
    /\ ManagerCall(safe_sleep(sleep_manager, circuit_breaker_delay(failure_count),
                              CIRCUIT_BREAKER, TRUE, 100, overshoot))

RateLimitSleep(retry_after, overshoot) ==
    /\ sleeper.use = "api"
    /\ scall.n < MaxSleepCalls
    /\ ManagerCall(safe_sleep(sleep_manager, rate_limit_delay(retry_after),
                              API_RETRY, FALSE, 100, overshoot))

\* ---- the sleeps of scalp_runner: one step per loop iteration
EngineIteration ==
    /\ sleeper.use = "engine"
    /\ sleeper.running
    /\ sleeper.iterations < MaxSleepSteps

\* an iteration of the state machine: time.sleep(sleep_between_cycles)
EngineCycleSleep ==
    /\ EngineIteration
    /\ sleeper' = [sleeper EXCEPT !.iterations = @ + 1,
                                  !.slept = @ + sleeper.sleep_between_cycles]
    /\ UNCHANGED <<sleep_manager, scall, notSleep>>

\* an iteration that raised: time.sleep(1) in the except clause
EngineErrorSleep ==
    /\ EngineIteration
    /\ sleeper' = [sleeper EXCEPT !.iterations = @ + 1,
                                  !.slept = @ + TicksPerSecond]
    /\ UNCHANGED <<sleep_manager, scall, notSleep>>

\* the circuit is open: circuit_breaker_sleep(consecutive_failures), its
\* result dropped, then `continue`
EngineBreakerWait ==
    /\ EngineIteration
    /\ LET r == safe_sleep(sleep_manager, circuit_breaker_delay(max_failures),
                           CIRCUIT_BREAKER, TRUE, 100, 0)
       IN  /\ sleep_manager' = r.manager
           /\ scall' = CallRecord(r)
           /\ sleeper' = [sleeper EXCEPT !.iterations = @ + 1,
                                         !.slept = @ + r.slept]
    /\ UNCHANGED notSleep

\* the backoff runs: safe_sleep(min(10, max(1, remaining)), CIRCUIT_BREAKER),
\* its result dropped, then `continue`; seconds is what is left of the backoff
EngineBackoffWait(seconds) ==
    /\ EngineIteration
    /\ LET sleep_duration == Min(10, Max(1, seconds)) * TicksPerSecond
           r == safe_sleep(sleep_manager, sleep_duration, CIRCUIT_BREAKER, TRUE, 100, 0)
       IN  /\ sleep_manager' = r.manager
           /\ scall' = CallRecord(r)
           /\ sleeper' = [sleeper EXCEPT !.iterations = @ + 1,
                                         !.slept = @ + r.slept]
    /\ UNCHANGED notSleep

\* the while condition fails: max trades, the safety system or the cap
EngineLoopEnds ==
    /\ sleeper.use = "engine"
    /\ sleeper.running
    /\ sleeper' = [sleeper EXCEPT !.running = FALSE]
    /\ UNCHANGED <<sleep_manager, scall, notSleep>>

(***************************************************************************)
(* MonitoringSystem._emit_event (advanced_monitoring_system.py), called    *)
(* by the threads that record events on the one global instance.  The      *)
(* method takes no lock: the read of alert_throttle and the write that     *)
(* follows it are two steps.  Time is in seconds.                          *)
(***************************************************************************)
throttle_interval == 300
\* f"{event.event_type}_{event.source}" of record_api_event's failures and of
\* the monitoring loop's anomalies
ThrottleKeys == {"api_error_api_client", "anomaly_detected_log_analyzer"}
CRITICAL == "critical"
Severities == {"warning", CRITICAL}
MonitorThreads == {1, 2}
\* time.time() when the first event is recorded, the step of the clock and
\* the seconds one run lasts
MonitorStart == 1000
MonitorStep == 150
MaxMonitorSeconds == 600
\* Events handed to the handlers in one run
MaxDelivered == 3

NoEvent == [key |-> "none", severity |-> "none"]
ThreadIdle == [pc |-> "idle", event |-> NoEvent, now |-> 0, dropped |-> FALSE]

\* the throttling test of _emit_event: the event is dropped
throttled(last, at, severity) ==
    /\ at - last < throttle_interval
    /\ severity # CRITICAL

MonitorIdle ==
    /\ alert_throttle = [k \in ThrottleKeys |-> 0]
    /\ mclock = MonitorStart
    /\ mthread = [t \in MonitorThreads |-> ThreadIdle]
    /\ delivered = <<>>

\* _emit_event up to the throttling test: now = time.time(), then either
\* `return` or on to the assignment
Emit_Check(t, key, severity) ==
    /\ mthread[t].pc = "idle"
    /\ Len(delivered) + Cardinality({u \in MonitorThreads : mthread[u].pc = "set"})
          < MaxDelivered
    /\ mthread' = [mthread EXCEPT ![t] =
          IF throttled(alert_throttle[key], mclock, severity)
          THEN [pc |-> "idle", event |-> [key |-> key, severity |-> severity],
                now |-> mclock, dropped |-> TRUE]
          ELSE [pc |-> "set", event |-> [key |-> key, severity |-> severity],
                now |-> mclock, dropped |-> FALSE]]
    /\ UNCHANGED <<alert_throttle, mclock, delivered, notMonitor>>

\* _emit_event from the assignment on: alert_throttle[throttle_key] = now,
\* then the handlers and the subscribers get the event
Emit_Deliver(t) ==
    /\ mthread[t].pc = "set"
    /\ alert_throttle' = [alert_throttle EXCEPT ![mthread[t].event.key] = mthread[t].now]
    /\ delivered' = Append(delivered, [key |-> mthread[t].event.key,
                                       severity |-> mthread[t].event.severity,
                                       at |-> mthread[t].now])
    /\ mthread' = [mthread EXCEPT ![t].pc = "idle"]
    /\ UNCHANGED <<mclock, notMonitor>>

MonitorTick ==
    /\ mclock < MonitorStart + MaxMonitorSeconds
    /\ mclock' = mclock + MonitorStep
    /\ UNCHANGED <<alert_throttle, mthread, delivered, notMonitor>>

(***************************************************************************)
(* FailurePatternDetector (advanced_monitoring_system.py): record_event    *)
(* appends the outcome and analyses the last 20 of them.                   *)
(***************************************************************************)
window_size == 100
\* Outcomes record_event is given: a success, a failure, and an API_ERROR
\* failure whose metadata says timeout
Outcomes == {"ok", "fail", "api_timeout"}
\* Events recorded in one run
MaxEvents == 11

\* list(self.failure_history)[-20:]
recent_events(h) ==
    IF Len(h) <= 20 THEN h ELSE SubSeq(h, Len(h) - 19, Len(h))

\* FailurePatternDetector._count_consecutive_failures
RECURSIVE count_consecutive_failures(_)
count_consecutive_failures(events) ==
    IF events = <<>> \/ events[Len(events)] = "ok"
    THEN 0
    ELSE 1 + count_consecutive_failures(SubSeq(events, 1, Len(events) - 1))

\* FailurePatternDetector._analyze_recent_patterns: the patterns returned,
\* each with its severity
analyze_recent_patterns(h) ==
    IF Len(h) < 10
    THEN {}
    ELSE LET recent == recent_events(h)
             failures == Cardinality({ i \in DOMAIN recent : recent[i] # "ok" })
             api_timeouts == Cardinality({ i \in DOMAIN recent : recent[i] = "api_timeout" })
         IN  (IF count_consecutive_failures(recent) >= 5
              THEN {[type |-> "consecutive_failures", severity |-> "critical"]}
              ELSE {})
             \cup
             (IF failures * 10 >= 3 * Len(recent)
              THEN {[type |-> "high_failure_rate",
                     severity |-> IF failures * 2 < Len(recent) THEN "warning"
                                  ELSE "critical"]}
              ELSE {})
             \cup
             (IF api_timeouts >= 10
              THEN {[type |-> "api_timeout_cluster", severity |-> "warning"]}
              ELSE {})

\* deque(maxlen=window_size).append
deque_append(h, e) ==
    IF Len(h) < window_size THEN Append(h, e) ELSE Append(Tail(h), e)

DetectorIdle ==
    /\ failure_history = <<>>
    /\ patterns = {}

\* FailurePatternDetector.record_event
RecordEvent(outcome) ==
    /\ Len(failure_history) < MaxEvents
    /\ failure_history' = deque_append(failure_history, outcome)
    /\ patterns' = analyze_recent_patterns(failure_history')
    /\ UNCHANGED notDetector

(***************************************************************************)
(* SafeSleepManager.conditional_sleep: short sleeps while condition_func() *)
(* holds.  Durations in ticks of 0.1 ms.                                   *)
(***************************************************************************)
\* duration and max_wait_time of a call: 0.7 s, 1 s, 100 s and 1 s, 3 s, 60 s
WaitDurations == {7000, TicksPerSecond, 100 * TicksPerSecond}
MaxWaits == {TicksPerSecond, 3 * TicksPerSecond, 60 * TicksPerSecond}
\* total_sleep_time when the call is made: a fresh manager, and one that has
\* slept all but half a second of its budget
WaitStartTotals == {0, 1800 * TicksPerSecond - 5000}

NoWait == [pc |-> "idle", duration |-> 0, max_wait_time |-> 0, context |-> TRADING_CYCLE,
           elapsed |-> 0, sleep_iterations |-> 0, max_iterations |-> 0,
           always |-> TRUE, result |-> FALSE]

WaitIdle == cwait = NoWait

\* conditional_sleep up to the loop: start_wait, sleep_iterations, max_iterations
ConditionalSleep_Begin(duration, max_wait_time, context) ==
    /\ cwait.pc = "idle"
    /\ cwait' = [NoWait EXCEPT
                   !.pc = "loop", !.duration = duration,
                   !.max_wait_time = max_wait_time, !.context = context,
                   !.max_iterations =
                       (max_wait_time \div Max(duration, sleep_manager.limits.min_sleep)) + 1]
    /\ UNCHANGED <<sleep_manager, notWaitStep>>

\* one test of the while condition and what follows it: the return after the
\* loop, the timeout, or one sleep; cond is what condition_func() answers in
\* the while condition, final what it answers in the return statement
ConditionalSleep_Step(cond, final, overshoot) ==
    /\ cwait.pc = "loop"
    /\ IF ~(cond /\ cwait.sleep_iterations < cwait.max_iterations)
       THEN /\ cwait' = [cwait EXCEPT !.pc = "done", !.result = final,
                                      !.always = @ /\ cond /\ final]
            /\ UNCHANGED sleep_manager
       ELSE IF cwait.elapsed >= cwait.max_wait_time
       THEN /\ cwait' = [cwait EXCEPT !.pc = "done", !.result = FALSE]
            /\ UNCHANGED sleep_manager
       ELSE LET iteration_sleep == Min(cwait.duration, cwait.max_wait_time - cwait.elapsed)
                r == safe_sleep(sleep_manager, iteration_sleep, cwait.context,
                                FALSE, 100, overshoot)
            IN  IF ~r.returned
                THEN /\ cwait' = [cwait EXCEPT !.pc = "done", !.result = FALSE]
                     /\ UNCHANGED sleep_manager
                ELSE /\ sleep_manager' = r.manager
                     /\ cwait' = [cwait EXCEPT !.elapsed = @ + r.slept,
                                               !.sleep_iterations = @ + 1]
    /\ UNCHANGED notWaitStep

(***************************************************************************)
(* GateIOClient._request as place_spot_order and the read calls use it:    *)
(* every call builds its own retry manager (create_gate_io_retry_manager)  *)
(* and runs the HTTP request through execute_with_retry.  The handler of a *)
(* new manager lets every attempt through, so no attempt is skipped.       *)
(***************************************************************************)
\* _request calls of one client in one run
MaxRequests == 6
\* what an HTTP attempt ends in: a response, a timeout or connection error,
\* a 4xx answer
HttpOutcomes == {"ok", "timeout", "api_error"}

ClientInit == [pc |-> "idle", kind |-> "none", attempt |-> 0, breaker |-> BreakerInit,
               created |-> 0, http |-> 0, failed |-> 0, calls |-> 0, last |-> "none"]

ClientIdle == client = ClientInit

\* place_spot_order whose validation fails: {'error': ...}, no request
PlaceSpotOrder_Invalid ==
    /\ client.pc = "idle"
    /\ client.calls < MaxRequests
    /\ client' = [client EXCEPT !.kind = "order", !.created = 0, !.http = 0,
                                !.last = "error"]
    /\ UNCHANGED notClient

\* _request up to the first attempt: retry_manager = create_gate_io_retry_manager(),
\* then execute_with_retry asks the new manager's circuit breaker
Request_Begin(kind) ==
    /\ client.pc = "idle"
    /\ client.calls < MaxRequests
    /\ LET breaker == BreakerInit
       IN  IF can_proceed(breaker, RetryStart)
           THEN client' = [client EXCEPT !.pc = "loop", !.kind = kind, !.attempt = 1,
                              !.breaker = can_proceed_state(breaker, RetryStart),
                              !.created = 0, !.http = 0, !.calls = @ + 1,
                              !.last = "none"]
           ELSE client' = [client EXCEPT !.kind = kind, !.breaker = breaker,
                              !.created = 0, !.http = 0, !.calls = @ + 1,
                              !.last = "rejected"]
    /\ UNCHANGED notClient

\* one attempt of execute_with_retry: _execute_request sends the request;
\* accepted: the exchange processed it (always for a response, never for a
\* 4xx answer, either way when the attempt timed out)
Request_Attempt(outcome, accepted) ==
    /\ client.pc = "loop"
    /\ outcome = "ok" => accepted
    /\ outcome = "api_error" => ~accepted
    /\ LET made == IF client.kind = "order" /\ accepted THEN 1 ELSE 0
       IN  IF outcome = "ok"
           THEN client' = [client EXCEPT !.pc = "idle", !.http = @ + 1,
                              !.created = @ + made,
                              !.breaker = breaker_record_success(@),
                              !.last = "ok"]
           ELSE IF last_attempt(client.attempt)
           THEN client' = [client EXCEPT !.pc = "idle", !.http = @ + 1,
                              !.created = @ + made,
                              !.breaker = breaker_record_failure(@, RetryStart),
                              !.failed = @ + 1, !.last = "raised"]
           ELSE client' = [client EXCEPT !.attempt = @ + 1, !.http = @ + 1,
                              !.created = @ + made]
    /\ UNCHANGED notClient

(***************************************************************************)
(* Specifications: one per component, the other components at rest.        *)
(***************************************************************************)
SharedIdle ==
    /\ doc0 = InitialDoc
    /\ lockFile = NoHolder
    /\ wpc = [w \in Writers |-> "done"]
    /\ wop = [w \in Writers |-> [kind |-> "budget", pair |-> NoPair,
                                 bot |-> NoBot, info |-> EmptyBudget]]
    /\ wstate = [w \in Writers |-> InitialDoc]

SharedInit ==
    /\ doc \in { InitialDoc,
                 [InitialDoc EXCEPT !.bots["BTC_USDT"] =
                     [status |-> "RUNNING", alloc |-> 30, errors |-> 0]] }
    /\ doc0 = doc
    /\ lockFile = NoHolder
    /\ wpc = [w \in Writers |-> "start"]
    /\ wop \in [Writers -> WriterOps]
    /\ wstate = [w \in Writers |-> InitialDoc]
    /\ SessionIdle
    /\ LimiterIdle
    /\ EngineIdle
    /\ RetryIdle
    /\ CallerIdle
    /\ SleepIdle
    /\ MonitorIdle
    /\ DetectorIdle
    /\ WaitIdle
    /\ ClientIdle
    /\ StopsIdle
    /\ WorkerIdle
    /\ SupersIdle
    /\ MultiIdle

SharedNext ==
    \/ \E w \in Writers : ReadAcquire(w)
    \/ \E w \in Writers : ReadRelease(w)
    \/ \E w \in Writers : WriteAcquire(w)
    \/ \E w \in Writers : WriteRelease(w)
    \/ \E w \in Writers : LockTimeout(w)

SpecShared == SharedInit /\ [][SharedNext]_vars

\* ---- SharedState callers that call again and may die holding the lock file;
\* a process that is alive is scheduled again and again
LockInit ==
    /\ doc \in { InitialDoc,
                 [InitialDoc EXCEPT !.bots["BTC_USDT"] =
                     [status |-> "RUNNING", alloc |-> 30, errors |-> 0]] }
    /\ doc0 = doc
    /\ lockFile = NoHolder
    /\ wpc = [w \in Writers |-> "start"]
    /\ wop \in [Writers -> WriterOps]
    /\ wstate = [w \in Writers |-> InitialDoc]
    /\ SessionIdle
    /\ LimiterIdle
    /\ EngineIdle
    /\ RetryIdle
    /\ CallerIdle
    /\ SleepIdle
    /\ MonitorIdle
    /\ DetectorIdle
    /\ WaitIdle
    /\ ClientIdle
    /\ StopsIdle
    /\ WorkerIdle
    /\ SupersIdle
    /\ MultiIdle

LockNext ==
    \/ \E w \in Writers : ReadAcquire(w)
    \/ \E w \in Writers : ReadRelease(w)
    \/ \E w \in Writers : WriteAcquire(w)
    \/ \E w \in Writers : WriteRelease(w)
    \/ \E w \in Writers : LockTimeout(w)
    \/ \E w \in Writers : NextCall(w)
    \/ \E w \in Writers : HolderDies(w)

SpecLock == LockInit /\ [][LockNext]_vars /\ \A w \in Writers : WF_vars(WriterStep(w))

SessionInit ==
    /\ doc = InitialDoc
    /\ SessionIdle
    /\ SharedIdle
    /\ LimiterIdle
    /\ EngineIdle
    /\ RetryIdle
    /\ CallerIdle
    /\ SleepIdle
    /\ MonitorIdle
    /\ DetectorIdle
    /\ WaitIdle
    /\ ClientIdle
    /\ StopsIdle
    /\ WorkerIdle
    /\ SupersIdle
    /\ MultiIdle

SessionNext ==
    \/ \E p \in Pairs, r \in Requests, t \in Totals : StartBot_Update(p, r, t)
    \/ StartBot_BudgetRead
    \/ StartBot_BudgetWrite
    \/ StartBot_StartingRead
    \/ StartBot_StartingWrite
    \/ StartBot_Spawn
    \/ StartBot_RunningRead
    \/ StartBot_RunningWrite
    \/ \E p \in Pairs : StopBot_Put(p)
    \/ StopBot_Terminate
    \/ StopBot_DeallocGet
    \/ StopBot_DeallocRead
    \/ StopBot_DeallocWrite
    \/ \E t \in Totals : StopBot_Update(t)
    \/ StopBot_BudgetRead
    \/ StopBot_BudgetWrite
    \/ StopBot_StoppedGet
    \/ StopBot_StoppedRead
    \/ StopBot_StoppedWrite
    \/ StopBot_Cleanup
    \/ \E p \in Pairs : WorkerDies(p)
    \/ Monitor_Begin
    \/ Monitor_CheckAlive
    \/ Monitor_Get
    \/ Monitor_SetRead
    \/ Monitor_SetWrite
    \/ Monitor_Cleanup
    \/ \E t \in Totals : Monitor_Update(t)
    \/ Monitor_BudgetRead
    \/ Monitor_BudgetWrite

SpecSession == SessionInit /\ [][SessionNext]_vars

\* ---- start_bot and stop_bot with the worker processes and their engines
WorkerInit ==
    /\ doc = InitialDoc
    /\ SessionIdle
    /\ SharedIdle
    /\ LimiterIdle
    /\ EngineIdle
    /\ RetryIdle
    /\ CallerIdle
    /\ SleepIdle
    /\ MonitorIdle
    /\ DetectorIdle
    /\ WaitIdle
    /\ ClientIdle
    /\ StopsIdle
    /\ WorkerIdle
    /\ SupersIdle
    /\ MultiIdle

WorkerNext ==
    \/ \E p \in Pairs, r \in Requests, t \in Totals : StartBot_Update(p, r, t)
    \/ StartBot_BudgetRead
    \/ StartBot_BudgetWrite
    \/ StartBot_StartingRead
    \/ StartBot_StartingWrite
    \/ StartBot_Spawn
    \/ StartBot_RunningRead
    \/ StartBot_RunningWrite
    \/ \E p \in Pairs : StopBot_Put(p)
    \/ StopBot_Terminate
    \/ StopBot_DeallocGet
    \/ StopBot_DeallocRead
    \/ StopBot_DeallocWrite
    \/ \E t \in Totals : StopBot_Update(t)
    \/ StopBot_BudgetRead
    \/ StopBot_BudgetWrite
    \/ StopBot_StoppedGet
    \/ StopBot_StoppedRead
    \/ StopBot_StoppedWrite
    \/ StopBot_Cleanup
    \/ \E p \in Pairs : Worker_Popen(p)
    \/ \E p \in Pairs : Worker_StopCommand(p)
    \/ \E p \in Pairs : Worker_LoopEnds(p)
    \/ \E p \in Pairs : Worker_Communicate(p)
    \/ \E p \in Pairs : Engine_Exits(p)
    \/ \E p \in Pairs : Orphan_Exits(p)

SpecWorker == WorkerInit /\ [][WorkerNext]_vars

\* ---- MultiBotManager: start and stop commands beside the bot's threads
MultiInit ==
    /\ doc = InitialDoc
    /\ SessionIdle
    /\ SharedIdle
    /\ LimiterIdle
    /\ EngineIdle
    /\ RetryIdle
    /\ CallerIdle
    /\ SleepIdle
    /\ MonitorIdle
    /\ DetectorIdle
    /\ WaitIdle
    /\ ClientIdle
    /\ StopsIdle
    /\ WorkerIdle
    /\ SupersIdle
    /\ MultiIdle

MultiNext ==
    \/ \E t \in BotThreads : StartBotInstance(t)
    \/ \E t \in BotThreads : BotWorker_Running(t)
    \/ \E t \in BotThreads : BotWorker_Dashboard(t)
    \/ \E t \in BotThreads : BotWorker_Fails(t)
    \/ \E t \in BotThreads : BotWorker_EngineEnds(t)
    \/ \E t \in BotThreads : BotWorker_Finally(t)
    \/ StopBotInstance_Signal
    \/ StopBotInstance_Joined

SpecMulti == MultiInit /\ [][MultiNext]_vars

\* ---- two supervisors calling start_bot on one shared state file
SupersInit ==
    /\ doc = InitialDoc
    /\ SessionIdle
    /\ SharedIdle
    /\ LimiterIdle
    /\ EngineIdle
    /\ RetryIdle
    /\ CallerIdle
    /\ SleepIdle
    /\ MonitorIdle
    /\ DetectorIdle
    /\ WaitIdle
    /\ ClientIdle
    /\ StopsIdle
    /\ WorkerIdle
    /\ SupersIdle
    /\ MultiIdle

SupersNext ==
    \/ \E s \in Supervisors, p \in Pairs, r \in Requests, t \in Totals :
          Sup_Update(s, p, r, t)
    \/ \E s \in Supervisors : Sup_BudgetRead(s)
    \/ \E s \in Supervisors : Sup_BudgetWrite(s)
    \/ \E s \in Supervisors : Sup_StartingRead(s)
    \/ \E s \in Supervisors : Sup_StartingWrite(s)
    \/ \E s \in Supervisors : Sup_RunningRead(s)
    \/ \E s \in Supervisors : Sup_RunningWrite(s)

SpecSupers == SupersInit /\ [][SupersNext]_vars

LimiterInit ==
    /\ requests = <<>>
    /\ clock = 0
    /\ tpc = [t \in Threads |-> "idle"]
    /\ twake = [t \in Threads |-> 0]
    /\ cfg \in LimiterConfigs
    /\ log = <<>>
    /\ doc = InitialDoc
    /\ SharedIdle
    /\ SessionIdle
    /\ EngineIdle
    /\ RetryIdle
    /\ CallerIdle
    /\ SleepIdle
    /\ MonitorIdle
    /\ DetectorIdle
    /\ WaitIdle
    /\ ClientIdle
    /\ StopsIdle
    /\ WorkerIdle
    /\ SupersIdle
    /\ MultiIdle

LimiterNext ==
    \/ \E t \in Threads : CanMakeRequest(t)
    \/ \E t \in Threads : WaitIfNeeded(t)
    \/ \E t \in Threads : WakeUp(t)
    \/ \E t \in Threads : RecordRequest(t)
    \/ ClockTick

SpecLimiter == LimiterInit /\ [][LimiterNext]_vars

EngineInit ==
    /\ EngineStart
    /\ params \in { [mode |-> m, max_daily_loss |-> c.max_daily_loss,
                     min_win_rate |-> c.min_win_rate, timeout_minutes |-> t,
                     blocked |-> b] :
                    m \in {"runner", "worker"}, c \in SafetyChoices,
                    t \in TimeoutChoices, b \in BOOLEAN }
    /\ failure_tracker \in TrackerStarts
    /\ base \in StartBalances
    /\ doc = InitialDoc
    /\ SharedIdle
    /\ SessionIdle
    /\ LimiterIdle
    /\ RetryIdle
    /\ CallerIdle
    /\ SleepIdle
    /\ MonitorIdle
    /\ DetectorIdle
    /\ WaitIdle
    /\ ClientIdle
    /\ StopsIdle
    /\ WorkerIdle
    /\ SupersIdle
    /\ MultiIdle

EngineNext ==
    \/ RunnerLoopHead
    \/ WorkerBlocked
    \/ \E sig \in Signals : SetSignal(sig)
    \/ \E stop \in BOOLEAN : WorkerLoopHead(stop)
    \/ \E p \in Prices \cup {NoPrice}, expired \in BOOLEAN : WaitingForSell(p, expired)
    \/ \E p \in Prices \cup {NoPrice}, expired \in BOOLEAN :
          WaitingToBuy_VirtualEntry(p, expired)
    \/ \E expired \in BOOLEAN : WaitingToBuy_Skip(expired)
    \/ \E p \in Prices, api_ok \in BOOLEAN, expired \in BOOLEAN :
          WaitingToBuy_Buy(p, api_ok, expired)
    \/ \E expired \in BOOLEAN : FillPoll(expired)
    \/ \E expired \in BOOLEAN : PositionOpen_Closed(expired)
    \/ \E p \in Prices \cup {NoPrice}, api_ok \in BOOLEAN, expired \in BOOLEAN :
          PositionOpen_Monitor(p, api_ok, expired)
    \/ \E api_ok \in BOOLEAN : PositionOpen_Timeout(api_ok)
    \/ \E o \in orders : OrderFills(o)
    \/ MinutePasses

SpecEngine == EngineInit /\ [][EngineNext]_vars

RetryInit ==
    /\ rcfg \in RetryConfigs
    /\ rpc = "idle"
    /\ attempt = 0
    /\ rtime = RetryStart
    /\ rate_handler \in HandlerStarts
    /\ circuit_breaker \in BreakerStarts
    /\ rcall = NewCall
    /\ doc = InitialDoc
    /\ SharedIdle
    /\ SessionIdle
    /\ LimiterIdle
    /\ EngineIdle
    /\ CallerIdle
    /\ SleepIdle
    /\ MonitorIdle
    /\ DetectorIdle
    /\ WaitIdle
    /\ ClientIdle
    /\ StopsIdle
    /\ WorkerIdle
    /\ SupersIdle
    /\ MultiIdle

RetryNext ==
    \/ Execute_Begin
    \/ Attempt_Skip
    \/ Attempt_Success
    \/ \E e \in Errors, j \in JitterChoices, u \in FallbackJitter : Attempt_Failure(e, j, u)
    \/ Loop_Exhausted

SpecRetry == RetryInit /\ [][RetryNext]_vars

BreakerSpecInit ==
    /\ EngineStart
    /\ params = [mode |-> "runner", max_daily_loss |-> 1500, min_win_rate |-> 30,
                 timeout_minutes |-> 1, blocked |-> FALSE]
    /\ base = 0
    /\ failure_tracker \in TrackerStarts
    /\ rcfg \in { c \in RetryConfigs : c.max_delay = 600 }
    /\ rpc = "idle"
    /\ attempt = 0
    /\ rtime = RetryStart
    /\ rate_handler = HandlerInit
    /\ rcall = NewCall
    /\ circuit_breaker \in { b \in BreakerStarts : b.state = "CLOSED" }
    /\ \/ tk = [NoAnswer EXCEPT !.live = TRUE] /\ cb = NoAnswer
       \/ tk = NoAnswer /\ cb = [NoAnswer EXCEPT !.live = TRUE]
    /\ doc = InitialDoc
    /\ SharedIdle
    /\ SessionIdle
    /\ LimiterIdle
    /\ SleepIdle
    /\ MonitorIdle
    /\ DetectorIdle
    /\ WaitIdle
    /\ ClientIdle
    /\ StopsIdle
    /\ WorkerIdle
    /\ SupersIdle
    /\ MultiIdle

BreakerNext ==
    \/ Tracker_Ask
    \/ Tracker_Failure
    \/ Tracker_Success
    \/ Breaker_Ask
    \/ Breaker_Failure
    \/ Breaker_Success
    \/ BreakerClock

SpecBreaker == BreakerSpecInit /\ [][BreakerNext]_vars

SleepInit ==
    /\ scall = NoCall
    /\ \/ /\ sleep_manager \in { [limits |-> l, total_sleep_time |-> 0] :
                                  l \in {TradingSleepLimits, ApiSleepLimits} }
          /\ sleeper = [use |-> "api", sleep_between_cycles |-> 0, iterations |-> 0,
                        slept |-> 0, running |-> TRUE]
       \/ /\ sleep_manager = [limits |-> TradingSleepLimits, total_sleep_time |-> 0]
          /\ \E c \in CycleSleeps :
                sleeper = [use |-> "engine", sleep_between_cycles |-> c,
                           iterations |-> 0, slept |-> 0, running |-> TRUE]
    /\ doc = InitialDoc
    /\ SharedIdle
    /\ SessionIdle
    /\ LimiterIdle
    /\ EngineIdle
    /\ RetryIdle
    /\ CallerIdle
    /\ MonitorIdle
    /\ DetectorIdle
    /\ WaitIdle
    /\ ClientIdle
    /\ StopsIdle
    /\ WorkerIdle
    /\ SupersIdle
    /\ MultiIdle

SleepNext ==
    \/ \E d \in SleepDurations, c \in SleepContexts, j \in BOOLEAN,
          f \in JitterFactors, o \in Overshoots : SafeSleep(d, c, j, f, o)
    \/ \E o \in Overshoots : CircuitBreakerSleep(max_failures, o)
    \/ \E h \in {NoHeader, 10}, o \in Overshoots : RateLimitSleep(h, o)
    \/ EngineCycleSleep
    \/ EngineErrorSleep
    \/ EngineBreakerWait
    \/ \E seconds \in {60} : EngineBackoffWait(seconds)
    \/ EngineLoopEnds

SpecSleep == SleepInit /\ [][SleepNext]_vars

MonitorInit ==
    /\ MonitorIdle
    /\ doc = InitialDoc
    /\ SharedIdle
    /\ SessionIdle
    /\ LimiterIdle
    /\ EngineIdle
    /\ RetryIdle
    /\ CallerIdle
    /\ SleepIdle
    /\ DetectorIdle
    /\ WaitIdle
    /\ ClientIdle
    /\ StopsIdle
    /\ WorkerIdle
    /\ SupersIdle
    /\ MultiIdle

MonitorNext ==
    \/ \E t \in MonitorThreads, k \in ThrottleKeys, sv \in Severities : Emit_Check(t, k, sv)
    \/ \E t \in MonitorThreads : Emit_Deliver(t)
    \/ MonitorTick

SpecMonitor == MonitorInit /\ [][MonitorNext]_vars

DetectorInit ==
    /\ DetectorIdle
    /\ doc = InitialDoc
    /\ SharedIdle
    /\ SessionIdle
    /\ LimiterIdle
    /\ EngineIdle
    /\ RetryIdle
    /\ CallerIdle
    /\ SleepIdle
    /\ MonitorIdle
    /\ WaitIdle
    /\ ClientIdle
    /\ StopsIdle
    /\ WorkerIdle
    /\ SupersIdle
    /\ MultiIdle

DetectorNext == \E outcome \in Outcomes : RecordEvent(outcome)

SpecDetector == DetectorInit /\ [][DetectorNext]_vars

WaitInit ==
    /\ WaitIdle
    /\ sleep_manager \in { [limits |-> TradingSleepLimits, total_sleep_time |-> t] :
                            t \in WaitStartTotals }
    /\ scall = NoCall
    /\ sleeper = [use |-> "none", sleep_between_cycles |-> 0, iterations |-> 0,
                  slept |-> 0, running |-> FALSE]
    /\ doc = InitialDoc
    /\ SharedIdle
    /\ SessionIdle
    /\ LimiterIdle
    /\ EngineIdle
    /\ RetryIdle
    /\ CallerIdle
    /\ MonitorIdle
    /\ DetectorIdle
    /\ ClientIdle
    /\ StopsIdle
    /\ WorkerIdle
    /\ SupersIdle
    /\ MultiIdle

WaitNext ==
    \/ \E d \in WaitDurations, w \in MaxWaits, c \in {TRADING_CYCLE, API_RETRY} :
          ConditionalSleep_Begin(d, w, c)
    \/ \E cond \in BOOLEAN, final \in BOOLEAN, o \in Overshoots :
          ConditionalSleep_Step(cond, final, o)

SpecWait == WaitInit /\ [][WaitNext]_vars

ClientSpecInit ==
    /\ ClientIdle
    /\ doc = InitialDoc
    /\ SharedIdle
    /\ SessionIdle
    /\ LimiterIdle
    /\ EngineIdle
    /\ RetryIdle
    /\ CallerIdle
    /\ SleepIdle
    /\ MonitorIdle
    /\ DetectorIdle
    /\ WaitIdle
    /\ StopsIdle
    /\ WorkerIdle
    /\ SupersIdle
    /\ MultiIdle

ClientNext ==
    \/ PlaceSpotOrder_Invalid
    \/ \E kind \in {"order", "read"} : Request_Begin(kind)
    \/ \E outcome \in HttpOutcomes, accepted \in BOOLEAN : Request_Attempt(outcome, accepted)

SpecClient == ClientSpecInit /\ [][ClientNext]_vars


(***************************************************************************)
(* The claims.                                                             *)
(***************************************************************************)
\* C1: for two concurrent SharedState writers that both complete, the final
\* document is the result of running the two calls one after the other in one
\* of the two orders.
C1_SerialOutcome ==
    (\A w \in Writers : wpc[w] = "done") =>
        doc \in { ApplyOp(wop[2], ApplyOp(wop[1], doc0)),
                  ApplyOp(wop[1], ApplyOp(wop[2], doc0)) }

\* C2: at any moment at most one order the engine placed for the current
\* position (the trade counted by trades_done) is still open on the exchange.
C2_OneOrderInFlight ==
    Cardinality({ o \in orders : o.trade = trades_done }) <= 1

\* C3: every trade that reached waiting_for_sell and is back in waiting_to_buy
\* has exactly one realized P&L sample recorded in the SafetySystem.
C3_OneSamplePerClosedTrade ==
    tally.realized = tally.closed

\* C4: the SafetySystem's trade_history (and daily_pnl) receive a sample only in
\* the step that finds the position fully closed, waiting_for_sell with no
\* balance left; no other step of the loop adds one.
C4_SampleOnlyOnClose ==
    [][ Len(safety'.trade_history) > Len(safety.trade_history)
        => /\ current_state = WAITING_FOR_SELL
           /\ current_state' = WAITING_TO_BUY ]_vars

\* C5: while the OrderFailureTracker's circuit is open and its cooldown has not
\* elapsed, no step of the engine sends an order request, in scalp_runner and
\* in scalp_runner_worker_mode alike.
C5_NoOrderWhileBreakerOpen ==
    [][ sent'.n > sent.n
        => ~(/\ failure_tracker.circuit_open
             /\ SinceFailure(failure_tracker) < cooldown_seconds) ]_vars

\* C10: a position_open iteration that finds the position's P&L% at or below
\* the stop-loss trigger sends a sell for the whole position_quantity and,
\* when the exchange takes it, moves to waiting_for_sell.
C10_StopLossSellsPosition ==
    [][ (/\ epc = "body"
         /\ epc' = "timeout"
         /\ current_state = POSITION_OPEN
         /\ position.entry_price > 0
         /\ PnlAtOrBelow(locals'.current_price, position.entry_price,
                         dca_stop_loss_trigger))
        => /\ sent'.n = sent.n + 1
           /\ sent'.side = "sell"
           /\ sent'.qty = position.quantity
           /\ sent'.ok => current_state' = WAITING_FOR_SELL ]_vars

\* requests recorded in the window of length window_seconds that ends now
RecordedInWindow == Cardinality({ i \in DOMAIN log : log[i] > clock - cfg.window_seconds })

\* C6: over any sliding window of length `window` the number of requests the
\* limiter recorded is at most safeMax = floor(maxRequests * burstAllowance),
\* for requests gated as _request gates them, several threads included.
C6_WindowBound ==
    RecordedInWindow <= (cfg.max_requests * BurstPercent) \div 100

\* No call of the session manager is in progress
Quiescent == main.pc = "idle" /\ mon.pc = "idle"

\* C7: at every quiescent point the stored global budget has
\* allocated = sum of allocatedBudget over the bots that are starting or
\* running, and available = max(0, total - allocated).
C7_BudgetConservation ==
    Quiescent =>
        /\ doc.budget.allocated = SumAlloc(doc.bots, Pairs)
        /\ doc.budget.available = Max(0, doc.budget.total - doc.budget.allocated)

\* C8: in every snapshot of the document and for every bot,
\* allocatedBudget > 0 if and only if the status is starting or running.
C8_AllocIffActive ==
    \A p \in Pairs :
        doc.bots[p] # NoBot => (doc.bots[p].alloc > 0 <=> doc.bots[p].status \in Active)

\* C9: once the monitor pass that found worker hc.pair dead has finished
\* (health check and budget update, one 5 s period), that bot has status
\* ERROR, errorsCount one higher, allocatedBudget 0, the global available is
\* higher by the bot's former allocation, and every other bot's status and
\* allocation are what they were.
C9_DeadWorkerHandled ==
    (hc.done /\ main.pc = "idle") =>
        LET p == hc.pair
            was == hc.before.bots[p]
        IN  /\ doc.bots[p].status = "ERROR"
            /\ doc.bots[p].errors = was.errors + 1
            /\ doc.bots[p].alloc = 0
            /\ doc.budget.available >= hc.before.budget.available
            /\ \A q \in Pairs \ {p} :
                  /\ doc.bots[q].status = hc.before.bots[q].status
                  /\ doc.bots[q].alloc = hc.before.bots[q].alloc

\* C11: the step in which the entry buy is found filled and the engine moves
\* from waiting_to_buy to position_open creates the position: entry price set
\* (greater than 0), quantity the filled balance, opening time the fill time.
C11_FillCreatesPosition ==
    [][ (/\ epc = "poll"
         /\ current_state = WAITING_TO_BUY
         /\ current_state' = POSITION_OPEN)
        => /\ position'.entry_price > 0
           /\ position'.quantity = wallet_cache'
           /\ position'.time = now ]_vars

\* the position is as old as the timeout allows, or older
TimedOut ==
    /\ params.timeout_minutes > 0
    /\ now - position.time >= params.timeout_minutes

\* C12: a position_open iteration that finds the position still there, with
\* timeout > 0 and now - openedAt >= timeout, ends with a forced sell of the
\* position sent and, once the exchange takes it, in waiting_for_sell.
C12_TimeoutForcesSell ==
    [][ (/\ current_state = POSITION_OPEN
         /\ TimedOut
         /\ epc \in {"body", "timeout"}
         /\ epc' # epc
         /\ current_state' # WAITING_TO_BUY)
        => \/ /\ epc = "body"
              /\ epc' = "timeout"
           \/ /\ sent'.n = sent.n + 1
              /\ sent'.side = "sell"
              /\ sent'.qty = position.quantity
              /\ sent'.ok => current_state' = WAITING_FOR_SELL ]_vars

\* C13: a waiting_for_sell iteration with a balance left goes back to
\* position_open only when no open sell order of the pair is on the exchange.
C13_RevertOnlyWithoutSellOrder ==
    [][ (/\ current_state = WAITING_FOR_SELL
         /\ current_state' = POSITION_OPEN)
        => ~(\E o \in orders : o.side = "sell") ]_vars

\* C14: execute_with_retry invokes an operation that keeps failing at most
\* max_attempts times, and once max_attempts invocations have failed it has
\* raised.
C14_AtMostMaxAttempts ==
    /\ rcall.invocations <= rcfg.max_attempts
    /\ rcall.failed >= rcfg.max_attempts => rpc = "raised"

C14_Raised == rpc = "raised" /\ rcall.failed = rcfg.max_attempts

\* C15: the time one execute_with_retry call has spent sleeping between
\* attempts is at most max_attempts * max_delay, whatever the errors were.
C15_SleepBound ==
    rcall.slept <= rcfg.max_attempts * rcfg.max_delay

\* C16: a skipped attempt does not consume a retry: a call that gave up on a
\* failing operation has invoked it max_attempts times, skips or no skips.
C16_SkipKeepsRetries ==
    (rpc = "raised" /\ rcall.skips > 0) => rcall.invocations = rcfg.max_attempts

\* C17: the delay computed for a rate-limit error is at least 60 s, and with
\* a Retry-After header it is Retry-After * 1.2 floored at 60 s.
C17_RateLimitDelay ==
    rcall.last_error.type = RATE_LIMIT =>
        /\ rcall.last_delay >= RateLimitFallback
        /\ rcall.last_error.retry_after # NoHeader =>
              rcall.last_delay =
                 Max(RateLimitFallback,
                     (rcall.last_error.retry_after * TenthsPerSecond
                        * RetryAfterMarginPercent) \div 100)

\* C18: an operation whose failure is classified api_error is invoked exactly
\* once: the call raises without another attempt.
C18_ApiErrorNotRetried ==
    rcall.last_error.type = API_ERROR =>
        /\ rpc = "raised"
        /\ rcall.invocations = 1

\* C19: an open breaker lets its caller through again exactly when
\* now - openedAt >= cooldown, openedAt being the time it went open; asked
\* before that it answers no.  For the OrderFailureTracker (cooldown_seconds)
\* and for the CircuitBreaker (recovery_timeout).
C19_HalfOpenAfterCooldown ==
    /\ tk.answer = "open_yes" =>
          (tk.asked_at - tk.opened_at) * SecondsPerMinute >= cooldown_seconds
    /\ tk.answer = "open_no" =>
          (tk.asked_at - tk.opened_at) * SecondsPerMinute < cooldown_seconds
    /\ cb.answer = "open_yes" => cb.asked_at - cb.opened_at >= recovery_timeout
    /\ cb.answer = "open_no" => cb.asked_at - cb.opened_at < recovery_timeout

C19_LetThroughAfterCooldown ==
    /\ cb.answer = "open_yes"
    /\ circuit_breaker.state = "HALF_OPEN"
    /\ cb.asked_at - cb.opened_at = recovery_timeout

\* C20: a failure recorded while the breaker is half open (let through after
\* the cooldown, no result reported yet) sends it back to open with openedAt
\* reset to the time of that failure.
C20_HalfOpenFailureReopens ==
    [][ /\ (/\ tk.half_open
            /\ failure_tracker'.failure_count = failure_tracker.failure_count + 1)
           => /\ failure_tracker'.circuit_open
              /\ tk'.opened_at = now
        /\ (/\ circuit_breaker.state = "HALF_OPEN"
            /\ circuit_breaker'.failure_count = circuit_breaker.failure_count + 1)
           => /\ circuit_breaker'.state = "OPEN"
              /\ cb'.opened_at = rtime ]_vars

\* C23: every engine main loop stops after at most the iteration cap
\* (max_main_loop_iterations) of iterations, whatever the trade count, the
\* safety system and the sleeps do.
C23_IterationCap ==
    main_loop_iterations <= max_main_loop_iterations

\* the SafetySystem denies: the daily loss is beyond max_daily_loss, or there
\* are at least 5 samples and the win rate is below min_win_rate
Denied ==
    \/ safety.daily_pnl < -params.max_daily_loss
    \/ /\ Len(safety.trade_history) >= 5
       /\ Wins(safety.trade_history) * 100
             < params.min_win_rate * Len(safety.trade_history)

C26_StopHonoured ==
    [][ signal # NoSignal =>
           /\ main_loop_iterations' = main_loop_iterations
           /\ (epc = "head" /\ epc' # "head") => epc' = "done" ]_vars

C26_StoppedBySignal ==
    /\ signal = "stop_requested"
    /\ epc = "done"
    /\ trades_done < MaxTrades
    /\ ~Denied
    /\ main_loop_iterations > 0

C28_NoOrderWhileBlocked ==
    [][ sent'.n > sent.n => ~params.blocked ]_vars

\* C29: an order the exchange took invalidates the cached balance of the
\* asset: after place_spot_order returns, the cache holds no balance read
\* before the order.
C29_OrderInvalidatesBalance ==
    [][ (sent'.n > sent.n /\ sent'.ok) => wallet_cache' = NoCache ]_vars

\* C21: the time the engine sleeps in all, over every context, is bounded by
\* max_total_wait of its sleep manager.
C21_EngineSleepBounded ==
    sleeper.use = "engine" => sleeper.slept <= sleep_manager.limits.max_total_wait

\* C22: a call that would push the cumulative sleep past max_total_wait
\* returns false without sleeping, so total_sleep_time never exceeds
\* max_total_wait.
C22_TotalWithinBudget ==
    sleep_manager.total_sleep_time <= sleep_manager.limits.max_total_wait

\* C24: when a call of the sleep manager returns false (the sleep budget is
\* exhausted) the engine loop stops instead of continuing.
C24_ExhaustedBudgetStops ==
    [][ (sleeper.use = "engine" /\ scall'.n > scall.n /\ ~scall'.returned)
           => ~sleeper'.running ]_vars

\* C30: for each throttle key (kind, source) two non-critical events handed to
\* the handlers are at least throttle_interval apart, and no critical event
\* is dropped.
C30_ThrottledPerKey ==
    /\ \A i, j \in DOMAIN delivered :
          (/\ i < j
           /\ delivered[i].key = delivered[j].key
           /\ delivered[i].severity # CRITICAL
           /\ delivered[j].severity # CRITICAL)
          => \/ delivered[j].at - delivered[i].at >= throttle_interval
             \/ delivered[i].at - delivered[j].at >= throttle_interval
    /\ \A t \in MonitorThreads :
          mthread[t].dropped => mthread[t].event.severity # CRITICAL

\* C31: whenever the 5 most recent outcomes recorded are all failures,
\* record_event returns the critical consecutive-failures pattern.
C31_FiveFailuresCritical ==
    (/\ Len(failure_history) >= 5
     /\ \A i \in (Len(failure_history) - 4)..Len(failure_history) :
           failure_history[i] # "ok")
    => [type |-> "consecutive_failures", severity |-> "critical"] \in patterns

\* C32: conditional_sleep called with a predicate that stays true returns
\* false, and after at most max_iterations sleeps.
C32_StaysTrueReturnsFalse ==
    (cwait.pc = "done" /\ cwait.always)
    => /\ cwait.result = FALSE
       /\ cwait.sleep_iterations <= cwait.max_iterations

\* C33: one call of place_spot_order creates at most one order on the
\* exchange, retries after a timeout included.
C33_AtMostOneOrder ==
    client.created <= 1

\* C38: the failures of successive _request calls accumulate in the circuit
\* breaker: once failure_threshold calls have failed for good, no further
\* call gets as far as an HTTP attempt (no time passes in this model, so the
\* recovery timeout has not elapsed).
C38_BreakerAccumulates ==
    client.failed >= failure_threshold => client.pc # "loop"

\* C34: a stop_bot(pair) that found its worker alive and has returned, with
\* the health check of the monitor thread finished too, leaves the bot
\* STOPPED with the errors_count it had when stop_bot began.
C34_StopLeavesStopped ==
    (/\ stop_hist.returned
     /\ stop_hist.was_alive
     /\ mon.pc = "idle")
    => /\ get_bot_status(doc, stop_hist.pair).status = "STOPPED"
       /\ get_bot_status(doc, stop_hist.pair).errors = stop_hist.errors

\* C35: once stop_bot(pair) has returned and the bot's status is STOPPED, no
\* engine subprocess started for that pair is still running.
C35_StoppedEngineGone ==
    (/\ stop_hist.returned
     /\ get_bot_status(doc, stop_hist.pair).status = "STOPPED")
    => /\ engine[stop_hist.pair] = "none"
       /\ orphans[stop_hist.pair] = 0

\* C36: the allocated_budget of the bots that are STARTING or RUNNING sums to
\* no more than a total balance the grants were computed from, also while the
\* start_bot calls of two supervisors interleave.
C36_GrantsWithinTotal ==
    \E t \in Totals : SumAlloc(doc.bots, Pairs) <= t

\* C37: after a process has died holding the lock file, another process
\* eventually holds the lock again (its later reads and writes do not all end
\* in the lock timeout).
C37_LockRecovers ==
    \A w \in Writers :
        (wpc[w] = "dead") ~> (lockFile \in Writers \ {w})

\* C39: the time can_place_order stays false after a failure does not shrink
\* with the number of consecutive failures: whenever the tracker still
\* refuses, it would refuse as well had one more failure been recorded at
\* the instant of its last one.
C39_WaitNonDecreasing ==
    ~can_place_order(failure_tracker)
    => ~can_place_order([record_failure(failure_tracker) EXCEPT
                            !.last_failure_time = failure_tracker.last_failure_time])

\* C40: at most one bot_worker thread runs the engine for the bot at any
\* time, and while the bot's status is STOPPED none of its threads is
\* still running.
C40_OneWorkerThread ==
    /\ Cardinality({t \in BotThreads : bthreads[t].pc = "engine"}) <= 1
    /\ mbot.status = "STOPPED"
          => \A t \in BotThreads : bthreads[t].pc \in {"none", "dead"}

====
